---------------------------- MODULE Spec2Model ----------------------------
(***************************************************************************)
(* Model of the NES emulator cores of the repository.  Three revisions     *)
(* live side by side in the sources:                                       *)
(*   RevA  "0.11A"   src/cat'sfceuxhdr11.23.25.0.0v.0.py  (CPU, PPU, NES)  *)
(*   RevB  "0.1.1B"  src/Cat'sFCEUX0.1.1.b.py             (CPU, PPU, NES)  *)
(*   RevC  "1.0"     src/cat'sfceux1.01122.25.py          (FCEUX_Core)     *)
(* The variable rev selects the revision a behaviour is about; cpu, ppu,   *)
(* nes and sys_bus hold the fields of the objects of that revision under   *)
(* the names the source gives them.                                        *)
(*                                                                         *)
(* Byte arrays (wram, vram, oam, PRG, the cartridge file) are kept as      *)
(* sparse maps: a function from the indices holding a non-zero byte to     *)
(* that byte, every other index reading 0.  Arrays whose length matters    *)
(* carry it in a len field.                                                *)
(*                                                                         *)
(* A Python exception is modelled by the err field of the machine record:  *)
(* the statement that raises leaves the state as it was, and no later      *)
(* statement of the same handler runs.                                     *)
(***************************************************************************)
EXTENDS Integers, Sequences, FiniteSets, TLC

VARIABLES rev, cpu, ppu, nes, sys_bus, frame, last, ops_left

vars == <<rev, cpu, ppu, nes, sys_bus, frame, last, ops_left>>

RevA == "0.11A"
RevB == "0.1.1B"
RevC == "1.0"

-----------------------------------------------------------------------------
(* Bit arithmetic on non-negative integers, as Python computes it.          *)

RECURSIVE BitAnd(_, _)
BitAnd(a, b) ==
  IF a = 0 \/ b = 0 THEN 0
  ELSE (a % 2) * (b % 2) + 2 * BitAnd(a \div 2, b \div 2)

RECURSIVE BitOr(_, _)
BitOr(a, b) ==
  IF a = 0 THEN b
  ELSE IF b = 0 THEN a
  ELSE (IF a % 2 = 1 \/ b % 2 = 1 THEN 1 ELSE 0) + 2 * BitOr(a \div 2, b \div 2)

RECURSIVE BitXor(_, _)
BitXor(a, b) ==
  IF a = 0 THEN b
  ELSE IF b = 0 THEN a
  ELSE ((a + b) % 2) + 2 * BitXor(a \div 2, b \div 2)

\* bit n of v, and the n-bit field of v that starts at bit lo
Bit(v, n) == (v \div 2 ^ n) % 2
Field(v, lo, n) == (v \div 2 ^ lo) % 2 ^ n

\* v with bit n set to b (0 or 1), and v with that field replaced by f:
\* (v & ~mask) | (f << lo)
SetBit(v, n, b) == v + (b - Bit(v, n)) * 2 ^ n
SetField(v, lo, n, f) == v + (f - Field(v, lo, n)) * 2 ^ lo

Byte == 0 .. 255

-----------------------------------------------------------------------------
(* Sparse byte maps.                                                        *)

EmptyMap == << >>

Get(map, i) == IF i \in DOMAIN map THEN map[i] ELSE 0

Put(map, i, v) ==
  IF v = 0
  THEN [j \in (DOMAIN map) \ {i} |-> map[j]]
  ELSE [j \in (DOMAIN map) \cup {i} |-> IF j = i THEN v ELSE map[j]]

\* a byte string of length len: bytes(...) / bytearray(...)
Bytes(len, at) == [len |-> len, at |-> at]

\* data[lo:hi] of a byte string (Python slice, clipped to the length)
Slice(data, lo, hi) ==
  LET l == IF lo > data.len THEN data.len ELSE lo
      h == IF hi > data.len THEN data.len ELSE hi
      n == IF h > l THEN h - l ELSE 0
  IN  Bytes(n, [j \in { k - l : k \in { k \in DOMAIN data.at : k >= l /\ k < h } }
                 |-> data.at[j + l]])

\* a + b with the bytes of b left out
concat_without_second(a, b) == Bytes(a.len + b.len, a.at)

\* a + b of two byte strings
Concat(a, b) ==
  Bytes(a.len + b.len,
        [j \in (DOMAIN a.at) \cup { k + a.len : k \in DOMAIN b.at }
           |-> IF j < a.len THEN a.at[j] ELSE b.at[j - a.len]])


-----------------------------------------------------------------------------
(* The instruction table: <<opcode, operation, addressing mode, base       *)
(* cycles>>, the 151 entries both CPU revisions register.  "rel" marks the  *)
(* eight branches, whose operand RevA reads inside branch() and RevB        *)
(* resolves with its abs addressing mode; "none" is implied/accumulator.    *)

InstructionSet == {
    <<0, "BRK", "none", 7>>, <<1, "ORA", "indx", 6>>, <<5, "ORA", "zp", 3>>, <<6, "ASL", "zp", 5>>,
    <<8, "PHP", "none", 3>>, <<9, "ORA", "imm", 2>>, <<10, "ASL", "none", 2>>, <<13, "ORA", "abs", 4>>,
    <<14, "ASL", "abs", 6>>, <<16, "BPL", "rel", 2>>, <<17, "ORA", "indy", 5>>, <<21, "ORA", "zpx", 4>>,
    <<22, "ASL", "zpx", 6>>, <<24, "CLC", "none", 2>>, <<25, "ORA", "absy", 4>>, <<29, "ORA", "absx", 4>>,
    <<30, "ASL", "absx", 7>>, <<32, "JSR", "abs", 6>>, <<33, "AND", "indx", 6>>, <<36, "BIT", "zp", 3>>,
    <<37, "AND", "zp", 3>>, <<38, "ROL", "zp", 5>>, <<40, "PLP", "none", 4>>, <<41, "AND", "imm", 2>>,
    <<42, "ROL", "none", 2>>, <<44, "BIT", "abs", 4>>, <<45, "AND", "abs", 4>>, <<46, "ROL", "abs", 6>>,
    <<48, "BMI", "rel", 2>>, <<49, "AND", "indy", 5>>, <<53, "AND", "zpx", 4>>, <<54, "ROL", "zpx", 6>>,
    <<56, "SEC", "none", 2>>, <<57, "AND", "absy", 4>>, <<61, "AND", "absx", 4>>, <<62, "ROL", "absx", 7>>,
    <<64, "RTI", "none", 6>>, <<65, "EOR", "indx", 6>>, <<69, "EOR", "zp", 3>>, <<70, "LSR", "zp", 5>>,
    <<72, "PHA", "none", 3>>, <<73, "EOR", "imm", 2>>, <<74, "LSR", "none", 2>>, <<76, "JMP", "abs", 3>>,
    <<77, "EOR", "abs", 4>>, <<78, "LSR", "abs", 6>>, <<80, "BVC", "rel", 2>>, <<81, "EOR", "indy", 5>>,
    <<85, "EOR", "zpx", 4>>, <<86, "LSR", "zpx", 6>>, <<88, "CLI", "none", 2>>, <<89, "EOR", "absy", 4>>,
    <<93, "EOR", "absx", 4>>, <<94, "LSR", "absx", 7>>, <<96, "RTS", "none", 6>>, <<97, "ADC", "indx", 6>>,
    <<101, "ADC", "zp", 3>>, <<102, "ROR", "zp", 5>>, <<104, "PLA", "none", 4>>, <<105, "ADC", "imm", 2>>,
    <<106, "ROR", "none", 2>>, <<108, "JMP", "ind", 5>>, <<109, "ADC", "abs", 4>>, <<110, "ROR", "abs", 6>>,
    <<112, "BVS", "rel", 2>>, <<113, "ADC", "indy", 5>>, <<117, "ADC", "zpx", 4>>, <<118, "ROR", "zpx", 6>>,
    <<120, "SEI", "none", 2>>, <<121, "ADC", "absy", 4>>, <<125, "ADC", "absx", 4>>, <<126, "ROR", "absx", 7>>,
    <<129, "STA", "indx", 6>>, <<132, "STY", "zp", 3>>, <<133, "STA", "zp", 3>>, <<134, "STX", "zp", 3>>,
    <<136, "DEY", "none", 2>>, <<138, "TXA", "none", 2>>, <<140, "STY", "abs", 4>>, <<141, "STA", "abs", 4>>,
    <<142, "STX", "abs", 4>>, <<144, "BCC", "rel", 2>>, <<145, "STA", "indy", 6>>, <<148, "STY", "zpx", 4>>,
    <<149, "STA", "zpx", 4>>, <<150, "STX", "zpy", 4>>, <<152, "TYA", "none", 2>>, <<153, "STA", "absy", 5>>,
    <<154, "TXS", "none", 2>>, <<157, "STA", "absx", 5>>, <<160, "LDY", "imm", 2>>, <<161, "LDA", "indx", 6>>,
    <<162, "LDX", "imm", 2>>, <<164, "LDY", "zp", 3>>, <<165, "LDA", "zp", 3>>, <<166, "LDX", "zp", 3>>,
    <<168, "TAY", "none", 2>>, <<169, "LDA", "imm", 2>>, <<170, "TAX", "none", 2>>, <<172, "LDY", "abs", 4>>,
    <<173, "LDA", "abs", 4>>, <<174, "LDX", "abs", 4>>, <<176, "BCS", "rel", 2>>, <<177, "LDA", "indy", 5>>,
    <<180, "LDY", "zpx", 4>>, <<181, "LDA", "zpx", 4>>, <<182, "LDX", "zpy", 4>>, <<184, "CLV", "none", 2>>,
    <<185, "LDA", "absy", 4>>, <<186, "TSX", "none", 2>>, <<188, "LDY", "absx", 4>>, <<189, "LDA", "absx", 4>>,
    <<190, "LDX", "absy", 4>>, <<192, "CPY", "imm", 2>>, <<193, "CMP", "indx", 6>>, <<196, "CPY", "zp", 3>>,
    <<197, "CMP", "zp", 3>>, <<198, "DEC", "zp", 5>>, <<200, "INY", "none", 2>>, <<201, "CMP", "imm", 2>>,
    <<202, "DEX", "none", 2>>, <<204, "CPY", "abs", 4>>, <<205, "CMP", "abs", 4>>, <<206, "DEC", "abs", 6>>,
    <<208, "BNE", "rel", 2>>, <<209, "CMP", "indy", 5>>, <<213, "CMP", "zpx", 4>>, <<214, "DEC", "zpx", 6>>,
    <<216, "CLD", "none", 2>>, <<217, "CMP", "absy", 4>>, <<221, "CMP", "absx", 4>>, <<222, "DEC", "absx", 7>>,
    <<224, "CPX", "imm", 2>>, <<225, "SBC", "indx", 6>>, <<228, "CPX", "zp", 3>>, <<229, "SBC", "zp", 3>>,
    <<230, "INC", "zp", 5>>, <<232, "INX", "none", 2>>, <<233, "SBC", "imm", 2>>, <<234, "NOP", "none", 2>>,
    <<236, "CPX", "abs", 4>>, <<237, "SBC", "abs", 4>>, <<238, "INC", "abs", 6>>, <<240, "BEQ", "rel", 2>>,
    <<241, "SBC", "indy", 5>>, <<245, "SBC", "zpx", 4>>, <<246, "INC", "zpx", 6>>, <<248, "SED", "none", 2>>,
    <<249, "SBC", "absy", 4>>, <<253, "SBC", "absx", 4>>, <<254, "INC", "absx", 7>> }

Official == { e[1] : e \in InstructionSet }

op_table == [o \in 0 .. 255 |->
               IF o \in Official
               THEN LET e == CHOOSE e \in InstructionSet : e[1] = o
                    IN  [op |-> e[2], mode |-> e[3]]
               ELSE [op |-> "None", mode |-> "none"]]

cycles_table == [o \in 0 .. 255 |->
                   IF o \in Official
                   THEN (CHOOSE e \in InstructionSet : e[1] = o)[4]
                   ELSE 0]

-----------------------------------------------------------------------------
(* The machine record m = [rev, cpu, ppu, nes, sys_bus, err] is what the    *)
(* operators below transform.  err is "none" or the name of the Python      *)
(* exception that ended the handler.                                        *)

Raise(m, e) == [m EXCEPT !.err = e]

Ok(m) == m.err = "none"

\* Python's None where an object is expected, and where an address is
None == [none |-> TRUE]
NoAddr == -1

\* the result of an expression with side effects: the machine and the value
Ret(m, v) == [m |-> m, val |-> v]

-----------------------------------------------------------------------------
(* PPU, revision 0.11A.                                                     *)

\* PPU.__init__
PPU_A == [cycle |-> 0, scanline |-> 0, frame |-> 0,
          vram |-> EmptyMap, oam |-> EmptyMap, palette_ram |-> EmptyMap,
          chr_rom |-> Bytes(8192, EmptyMap),
          ctrl |-> 0, mask |-> 0, status |-> 0, oam_addr |-> 0,
          scroll_x |-> 0, scroll_y |-> 0, vram_addr |-> 0, temp_addr |-> 0,
          fine_x |-> 0, write_toggle |-> 0, read_buffer |-> 0,
          framebuffer |-> [kind |-> "zero"]]

\* the address increment of PPUDATA with CTRL bit 2 left out
vram_inc_across(ctrl) == 1

\* the increment of vram_addr after a PPUDATA access
VramInc(ctrl) == IF Bit(ctrl, 2) = 1 THEN 32 ELSE 1

\* the PPUSTATUS branch of PPU.read_reg without its two assignments
ppustatus_without_clear(m) ==
  Ret(m, SetField(m.ppu.status % 256, 0, 5, m.ppu.read_buffer % 32))

\* the PPUSTATUS branch of PPU.read_reg without self.write_toggle = 0
ppustatus_toggle_kept(m) ==
  Ret([m EXCEPT !.ppu.status = m.ppu.status % 128],
      SetField(m.ppu.status % 256, 0, 5, m.ppu.read_buffer % 32))

\* the PPUSTATUS branch of PPU.read_reg
ppustatus(m) ==
  Ret([m EXCEPT !.ppu.status = m.ppu.status % 128,
                !.ppu.write_toggle = 0],
      SetField(m.ppu.status % 256, 0, 5, m.ppu.read_buffer % 32))

\* PPU.read_reg
read_reg(m, addr) ==
  LET reg == (addr - 8192) % 8
      p   == m.ppu
  IN  IF reg = 2
      THEN ppustatus(m)
      ELSE IF reg = 4
      THEN Ret(m, Get(p.oam, p.oam_addr))
      ELSE IF reg = 7
      THEN LET a  == p.vram_addr % 16384
               m1 == [m EXCEPT !.ppu.vram_addr = (p.vram_addr + VramInc(p.ctrl)) % 16384]
           IN  IF a < 16128
               THEN Ret([m1 EXCEPT !.ppu.read_buffer = Get(p.vram, a)], p.read_buffer)
               ELSE Ret(m1, Get(p.palette_ram, a % 32))
      ELSE Ret(m, 0)

\* PPU.write_reg
write_reg(m, addr, val) ==
  LET reg == (addr - 8192) % 8
      p   == m.ppu
  IN  CASE reg = 0 ->
             [m EXCEPT !.ppu.ctrl = val,
                       !.ppu.temp_addr = SetField(p.temp_addr, 10, 2, val % 4)]
        [] reg = 1 -> [m EXCEPT !.ppu.mask = val]
        [] reg = 3 -> [m EXCEPT !.ppu.oam_addr = val]
        [] reg = 4 ->
             [m EXCEPT !.ppu.oam = Put(p.oam, p.oam_addr, val),
                       !.ppu.oam_addr = (p.oam_addr + 1) % 256]
        [] reg = 5 ->
             IF p.write_toggle = 0
             THEN [m EXCEPT !.ppu.fine_x = val % 8,
                            !.ppu.temp_addr = SetField(p.temp_addr, 0, 5, Field(val, 3, 5)),
                            !.ppu.write_toggle = 1]
             ELSE LET t1 == SetField(p.temp_addr, 12, 3, val % 8)
                  IN  [m EXCEPT !.ppu.temp_addr = SetField(t1, 5, 5, Field(val, 3, 5)),
                                !.ppu.write_toggle = 0]
        [] reg = 6 ->
             IF p.write_toggle = 0
             THEN [m EXCEPT !.ppu.temp_addr = SetField(p.temp_addr, 8, 7, val % 64),
                            !.ppu.write_toggle = 1]
             ELSE LET t1 == SetField(p.temp_addr, 0, 8, val)
                  IN  [m EXCEPT !.ppu.temp_addr = t1,
                                !.ppu.vram_addr = t1,
                                !.ppu.write_toggle = 0]
        [] reg = 7 ->
             LET a  == p.vram_addr % 16384
                 m1 == IF a < 16128
                       THEN [m EXCEPT !.ppu.vram = Put(p.vram, a, val)]
                       ELSE [m EXCEPT !.ppu.palette_ram = Put(p.palette_ram, a % 32, val)]
             IN  [m1 EXCEPT !.ppu.vram_addr = (p.vram_addr + VramInc(p.ctrl)) % 16384]
        [] OTHER -> m

\* one PPU clock of PPU.step with the VBlank flag set one line early
tick_a_early_vblank(m) ==
  LET p   == m.ppu
      c1  == p.cycle + 1
      eol == c1 >= 341
      cyc == IF eol THEN 0 ELSE c1
      s1  == IF eol THEN p.scanline + 1 ELSE p.scanline
      eof == eol /\ s1 >= 262
      sl  == IF eof THEN 0 ELSE s1
      fr  == IF eof THEN p.frame + 1 ELSE p.frame
      vb  == sl = 240 /\ cyc = 1
      st1 == IF vb THEN SetBit(p.status, 7, 1) ELSE p.status
      st2 == IF sl = 261 /\ cyc = 1 THEN st1 % 32 ELSE st1
  IN  [m EXCEPT !.ppu.cycle = cyc, !.ppu.scanline = sl, !.ppu.frame = fr,
                !.ppu.status = st2,
                !.cpu.nmi_pending = IF vb /\ Bit(p.ctrl, 7) = 1 THEN TRUE ELSE @]

\* one pass of the loop body of PPU.step: one PPU clock
TickA(m) ==
  LET p   == m.ppu
      c1  == p.cycle + 1
      eol == c1 >= 341
      cyc == IF eol THEN 0 ELSE c1
      s1  == IF eol THEN p.scanline + 1 ELSE p.scanline
      eof == eol /\ s1 >= 262
      sl  == IF eof THEN 0 ELSE s1
      fr  == IF eof THEN p.frame + 1 ELSE p.frame
      vb  == sl = 241 /\ cyc = 1
      st1 == IF vb THEN SetBit(p.status, 7, 1) ELSE p.status
      st2 == IF sl = 261 /\ cyc = 1 THEN st1 % 32 ELSE st1
  IN  [m EXCEPT !.ppu.cycle = cyc, !.ppu.scanline = sl, !.ppu.frame = fr,
                !.ppu.status = st2,
                !.cpu.nmi_pending = IF vb /\ Bit(p.ctrl, 7) = 1 THEN TRUE ELSE @]

RECURSIVE TicksA(_, _)
TicksA(m, n) == IF n = 0 THEN m ELSE TicksA(TickA(m), n - 1)

\* PPU.step(cycles)
PPUStepA(m, cycles) == TicksA(m, cycles * 3)

\* PPU.render_frame: the framebuffer is kept as the rule that fills it.
\* "static" stands for 256*240 independent random.randint(0, 0x3F) draws,
\* "pattern" for pixel (x, y) = (base + ((x // 16 + y // 16) & 3)) & 0x3F.
render_frame(m) ==
  IF ~m.sys_bus.rom_loaded
  THEN [m EXCEPT !.ppu.framebuffer = [kind |-> "static"]]
  ELSE [m EXCEPT !.ppu.framebuffer =
                   [kind |-> "pattern", base |-> (m.ppu.frame \div 2) % 64]]

-----------------------------------------------------------------------------
(* Bus, revision 0.11A.                                                     *)

\* NES.__init__ (the fields besides cpu and ppu)
NES_A == [wram |-> EmptyMap, prg_rom |-> Bytes(32768, EmptyMap), mapper |-> 0,
          controller1 |-> 0, controller2 |-> 0,
          controller_strobe |-> 0, controller_shift |-> 0,
          frame_count |-> 0]

\* NES.read
NESReadA(m, addr0) ==
  LET addr == addr0 % 65536
  IN  IF ~Ok(m) THEN Ret(m, 0)
      ELSE IF addr < 8192 THEN Ret(m, Get(m.nes.wram, addr % 2048))
      ELSE IF addr < 16384 THEN read_reg(m, addr)
      ELSE IF addr < 16416
      THEN IF addr = 16406
           THEN LET val == m.nes.controller_shift % 2
                IN  IF m.nes.controller_strobe = 0
                    THEN Ret([m EXCEPT !.nes.controller_shift =
                                         SetBit(m.nes.controller_shift \div 2, 7, 1)], val)
                    ELSE Ret(m, val)
           ELSE Ret(m, 0)
      ELSE IF addr >= 32768
      THEN IF addr - 32768 < m.nes.prg_rom.len
           THEN Ret(m, Get(m.nes.prg_rom.at, addr - 32768))
           ELSE Ret(Raise(m, "IndexError"), 0)
      ELSE Ret(m, 0)

\* oam[i] = the value just read
DmaStoreA(r, i) ==
  IF ~Ok(r.m) THEN r.m ELSE [r.m EXCEPT !.ppu.oam = Put(@, i, r.val)]

\* the OAM DMA loop of NES.write, for i in range(256): oam[i] = read(start + i),
\* from pass lo up to pass hi - 1, in order: the first half, then the second
RECURSIVE DmaA(_, _, _, _)
DmaA(m, start, lo, hi) ==
  IF ~Ok(m) THEN m
  ELSE IF hi - lo = 1 THEN DmaStoreA(NESReadA(m, start + lo), lo)
  ELSE DmaA(DmaA(m, start, lo, (lo + hi) \div 2), start, (lo + hi) \div 2, hi)

\* NES.write
NESWriteA(m, addr0, val0) ==
  LET addr == addr0 % 65536
      val  == val0 % 256
  IN  IF ~Ok(m) THEN m
      ELSE IF addr < 8192 THEN [m EXCEPT !.nes.wram = Put(@, addr % 2048, val)]
      ELSE IF addr < 16384 THEN write_reg(m, addr, val)
      ELSE IF addr < 16416
      THEN IF addr = 16404 THEN DmaA(m, val * 256, 0, 256)
           ELSE IF addr = 16406
           THEN IF val % 2 = 1 /\ m.nes.controller_strobe = 0
                THEN [m EXCEPT !.nes.controller_strobe = 1]
                ELSE IF val % 2 = 0 /\ m.nes.controller_strobe # 0
                THEN [m EXCEPT !.nes.controller_strobe = 0,
                               !.nes.controller_shift = m.nes.controller1]
                ELSE m
           ELSE m
      ELSE m

-----------------------------------------------------------------------------
(* PPU and bus, revision 0.1.1B.                                            *)

\* PPU.__init__ ; the two pixel buffers are kept as their most recent write
PPU_B == [vram |-> EmptyMap, palette |-> EmptyMap, oam |-> EmptyMap,
          cycle |-> 0, scanline |-> 0, frame |-> 0,
          ctrl |-> 0, mask |-> 0, status |-> 0, oam_addr |-> 0,
          v |-> 0, t |-> 0, x |-> 0, w |-> 0, nmi_occurred |-> FALSE,
          front_buffer |-> [kind |-> "zero"], back_buffer |-> [kind |-> "zero"]]

\* NES.__init__ ; rom is None until a cartridge is loaded
NES_B == [wram |-> EmptyMap, rom |-> None, mirroring |-> 0, frame_count |-> 0]

\* NES.chr_read
chr_read(m, addr) ==
  IF ~Ok(m) THEN Ret(m, 0)
  ELSE IF m.nes.rom = None THEN Ret(Raise(m, "TypeError"), 0)
  ELSE IF m.nes.rom.chr.len > 0
  THEN Ret(m, Get(m.nes.rom.chr.at, addr % m.nes.rom.chr.len))
  ELSE Ret(m, 0)

\* NES.chr_write ; rom['chr'] is a slice of the bytes object read from the
\* file, which does not support item assignment
chr_write(m, addr, val) ==
  IF ~Ok(m) THEN m
  ELSE IF m.nes.rom = None THEN Raise(m, "TypeError")
  ELSE IF m.nes.rom.chr.len = 0 THEN m
  ELSE Raise(m, "TypeError")

\* PPU.mirror_vram
mirror_vram(m, addr0) ==
  LET addr == (addr0 - 8192) % 4096
  IN  IF m.nes.mirroring = 0
      THEN IF addr < 2048 THEN addr % 1024 ELSE (addr % 1024) + 1024
      ELSE addr % 1024

\* PPU.mirror_palette
mirror_palette(addr0) ==
  LET addr == (addr0 - 16128) % 32
  IN  IF addr >= 16 /\ addr % 4 = 0 THEN addr - 16 ELSE addr

\* PPU.read
PPUReadB(m, addr0) ==
  LET addr == addr0 % 16384
  IN  IF ~Ok(m) THEN Ret(m, 0)
      ELSE IF addr < 8192 THEN chr_read(m, addr)
      ELSE IF addr < 16128 THEN Ret(m, Get(m.ppu.vram, mirror_vram(m, addr)))
      ELSE Ret(m, Get(m.ppu.palette, mirror_palette(addr)))

\* PPU.write
PPUWriteB(m, addr0, val0) ==
  LET addr == addr0 % 16384
      val  == val0 % 256
  IN  IF ~Ok(m) THEN m
      ELSE IF addr < 8192 THEN chr_write(m, addr, val)
      ELSE IF addr < 16128
      THEN [m EXCEPT !.ppu.vram = Put(@, mirror_vram(m, addr), val)]
      ELSE [m EXCEPT !.ppu.palette = Put(@, mirror_palette(addr), val)]

\* PPU.write_control
write_control(m, val) ==
  [m EXCEPT !.ppu.ctrl = val,
            !.ppu.t = SetField(m.ppu.t, 10, 2, val % 4)]

\* PPU.read_status
read_status(m) ==
  Ret([m EXCEPT !.ppu.status = m.ppu.status % 128, !.ppu.w = 0],
      SetField(m.ppu.status % 256, 0, 5, 0))

\* PPU.write_scroll
write_scroll(m, val) ==
  IF m.ppu.w = 0
  THEN [m EXCEPT !.ppu.t = SetField(m.ppu.t, 0, 5, 0) + val \div 8,
                 !.ppu.x = val % 8,
                 !.ppu.w = 1]
  ELSE LET t1 == SetField(m.ppu.t, 12, 3, val % 8)
       IN  [m EXCEPT !.ppu.t = SetField(t1, 5, 5, Field(val, 3, 5)),
                     !.ppu.w = 0]

\* PPU.write_address
write_address(m, val) ==
  IF m.ppu.w = 0
  THEN [m EXCEPT !.ppu.t = SetField(m.ppu.t, 8, 7, val % 64),
                 !.ppu.w = 1]
  ELSE LET t1 == SetField(m.ppu.t, 0, 8, val)
       IN  [m EXCEPT !.ppu.t = t1, !.ppu.v = t1, !.ppu.w = 0]

\* NES.read
NESReadB(m, addr0) ==
  LET addr == addr0 % 65536
  IN  IF ~Ok(m) THEN Ret(m, 0)
      ELSE IF addr < 8192 THEN Ret(m, Get(m.nes.wram, addr % 2048))
      ELSE IF addr < 16384 THEN PPUReadB(m, addr % 8)
      ELSE IF addr = 16406 THEN Ret(m, 0)
      ELSE IF addr >= 32768
      THEN IF m.nes.rom = None THEN Ret(Raise(m, "TypeError"), 0)
           ELSE IF m.nes.rom.prg.len = 0 THEN Ret(Raise(m, "ZeroDivisionError"), 0)
           ELSE Ret(m, Get(m.nes.rom.prg.at, (addr - 32768) % m.nes.rom.prg.len))
      ELSE Ret(m, 0)

\* NES.dma_transfer: self.ppu.oam[i] = the value just read
DmaStoreB(r, i) ==
  IF ~Ok(r.m) THEN r.m ELSE [r.m EXCEPT !.ppu.oam = Put(@, i, r.val)]

\* the loop from pass lo up to pass hi - 1, in order
RECURSIVE DmaB(_, _, _, _)
DmaB(m, addr, lo, hi) ==
  IF ~Ok(m) THEN m
  ELSE IF hi - lo = 1 THEN DmaStoreB(NESReadB(m, addr + lo), lo)
  ELSE DmaB(DmaB(m, addr, lo, (lo + hi) \div 2), addr, (lo + hi) \div 2, hi)

\* the stall NES.dma_transfer adds once its loop is through
DmaStall(m) == IF ~Ok(m) THEN m ELSE [m EXCEPT !.cpu.cycles = @ + 513]

dma_transfer(m, page) == DmaStall(DmaB(m, page * 256, 0, 256))

\* NES.write
NESWriteB(m, addr0, val0) ==
  LET addr == addr0 % 65536
      val  == val0 % 256
  IN  IF ~Ok(m) THEN m
      ELSE IF addr < 8192 THEN [m EXCEPT !.nes.wram = Put(@, addr % 2048, val)]
      ELSE IF addr < 16384 THEN PPUWriteB(m, addr % 8, val)
      ELSE IF addr = 16404 THEN dma_transfer(m, val)
      ELSE m

-----------------------------------------------------------------------------
(* The bus as the CPU of either revision sees it.                           *)

Read(m, addr) == IF m.rev = RevA THEN NESReadA(m, addr) ELSE NESReadB(m, addr)

Write(m, addr, val) ==
  IF m.rev = RevA THEN NESWriteA(m, addr, val) ELSE NESWriteB(m, addr, val)

\* the reads at addrs, one after the other, up to the first that raises;
\* the value is the sequence of the bytes read
RECURSIVE ReadSeq(_, _), ReadRest(_, _)
ReadSeq(m, addrs) ==
  IF addrs = << >> THEN Ret(m, << >>)
  ELSE ReadRest(Read(m, Head(addrs)), Tail(addrs))

Cons(v, r) == Ret(r.m, <<v>> \o r.val)

ReadRest(r, rest) ==
  IF ~Ok(r.m) THEN Ret(r.m, << >>) ELSE Cons(r.val, ReadSeq(r.m, rest))

\* the writes <<addr, val>> of a sequence, one after the other, up to the
\* first that raises
RECURSIVE WriteSeq(_, _)
WriteSeq(m, writes) ==
  IF writes = << >> \/ ~Ok(m) THEN m
  ELSE WriteSeq(Write(m, Head(writes)[1], Head(writes)[2]), Tail(writes))

\* (hi << 8) | lo of the bytes <<lo, hi>>; a single byte is itself
Word(bytes) ==
  IF bytes = << >> THEN 0
  ELSE IF Len(bytes) = 1 THEN bytes[1]
  ELSE bytes[2] * 256 + bytes[1]

WordOf(r) == Ret(r.m, Word(r.val))

\* NES.read16
Read16(m, addr) == WordOf(ReadSeq(m, <<addr, addr + 1>>))

-----------------------------------------------------------------------------
(* CPU, both revisions.  Where the revisions differ the operator tests      *)
(* m.rev; the comment names the two source functions.                       *)

\* CPU.__init__ (registers, timing and interrupt flags)
CPU_Init == [a |-> 0, x |-> 0, y |-> 0, sp |-> 253, pc |-> 0, status |-> 36,
             cycles |-> 0, extra_cycles |-> 0, total_cycles |-> 0,
             nmi_pending |-> FALSE, irq_pending |-> FALSE]

\* CPU.get_flag ; every mask the code passes is a single bit
get_flag(m, mask) == (m.cpu.status \div mask) % 2 = 1

\* a flag read as always clear
flag_read_as_clear(m, mask) == 0

Flag01(m, mask) == (m.cpu.status \div mask) % 2

\* CPU.set_flag
set_flag(m, mask, val) ==
  [m EXCEPT !.cpu.status = @ + ((IF val THEN 1 ELSE 0) - ((@ \div mask) % 2)) * mask]

\* CPU.set_zn
set_zn(m, val) == set_flag(set_flag(m, 2, val = 0), 128, Bit(val, 7) = 1)

\* CPU.push storing at sp instead of 0x100 + sp
push_in_zero_page(sp, vals) ==
  [i \in 1 .. Len(vals) |-> <<(sp - (i - 1)) % 256, vals[i] % 256>>]

\* CPU.push, called once for each of vals from stack pointer sp on: the
\* writes it makes (sp ends Len(vals) lower)
push(sp, vals) ==
  [i \in 1 .. Len(vals) |-> <<256 + ((sp - (i - 1)) % 256), vals[i] % 256>>]

\* CPU.pop, called n times from stack pointer sp on: the addresses it reads
\* (sp ends n higher)
pop(sp, n) == [i \in 1 .. n |-> 256 + ((sp + i) % 256)]

\* CPU.push16: the two bytes it pushes
push16(val) == <<(val \div 256) % 256, val % 256>>

\* What an instruction does once its reads are through: m is the machine
\* before its writes, writes the bus writes it makes, after the machine whose
\* status, sp and pc the CPU has once the writes succeeded, vector the
\* address it then loads pc from (NoAddr: none).
Plan(m, writes, after, vector) ==
  [m |-> m, writes |-> writes, status |-> after.cpu.status,
   sp |-> after.cpu.sp, pc |-> after.cpu.pc, vector |-> vector]

Pure(m) == Plan(m, << >>, m, NoAddr)

\* pc = read16(vector), the last statement of BRK and of an interrupt
LoadVector(r) ==
  IF ~Ok(r.m) \/ r.val = << >> THEN r.m ELSE [r.m EXCEPT !.cpu.pc = Word(r.val)]

Settle(plan, m) ==
  IF ~Ok(m) THEN m
  ELSE LoadVector(ReadSeq([m EXCEPT !.cpu.status = plan.status,
                                    !.cpu.sp = plan.sp, !.cpu.pc = plan.pc],
                          IF plan.vector = NoAddr THEN << >>
                          ELSE <<plan.vector, plan.vector + 1>>))

Carry(plan) == Settle(plan, WriteSeq(plan.m, plan.writes))

\* self.cycles = 7
Seven(m) == IF Ok(m) THEN [m EXCEPT !.cpu.cycles = 7] ELSE m

\* the body shared by CPU.nmi and CPU.irq: push PC and status, set I, load
\* the vector
Interrupt(m, vector) ==
  Seven(Carry(Plan(m,
                   push(m.cpu.sp, push16(m.cpu.pc) \o <<SetBit(m.cpu.status, 4, 0)>>),
                   set_flag([m EXCEPT !.cpu.sp = (@ - 3) % 256], 4, TRUE),
                   vector)))

\* CPU.nmi entered through the vector of CPU.irq
nmi_through_irq_vector(m) == Interrupt(m, 65534)

\* CPU.nmi
nmi(m) == Interrupt(m, 65530)

\* CPU.irq
irq(m) == IF ~get_flag(m, 4) THEN Interrupt(m, 65534) ELSE m

\* (a & 0xFF00) != (b & 0xFF00)
PageCross(a, b) == Field(a, 8, 8) # Field(b, 8, 8)

\* the operand bytes an addressing mode reads at pc
OperandBytes(m, mode) ==
  IF mode \in {"none", "imm"} THEN << >>
  ELSE IF mode \in {"zp", "zpx", "zpy", "indx", "indy"} THEN <<m.cpu.pc>>
  ELSE <<m.cpu.pc, m.cpu.pc + 1>>

\* how far the mode moves pc.  In 0.1.1B imm, zpgx and zpgy return before
\* their pc += 1.
PcStep(r, mode) ==
  IF mode = "none" THEN 0
  ELSE IF mode \in {"imm", "zpx", "zpy"} THEN (IF r = RevA THEN 1 ELSE 0)
  ELSE IF mode \in {"zp", "indx", "indy"} THEN 1
  ELSE 2

\* the modes that need no further read: w is the operand
Direct(m, mode, w) ==
  LET A     == m.rev = RevA
      c     == m.cpu
      idx   == IF mode \in {"zpx", "absx"} THEN c.x
               ELSE IF mode \in {"zpy", "absy"} THEN c.y ELSE 0
      addr  == IF mode = "none" THEN NoAddr
               ELSE IF mode = "imm" THEN c.pc
               ELSE IF mode \in {"zp", "zpx", "zpy"} THEN (w + idx) % 256
               ELSE IF A THEN (w + idx) % 65536 ELSE w + idx
      cross == mode \in {"absx", "absy"} /\ PageCross(w, w + idx)
  IN  Ret([m EXCEPT !.cpu.pc = @ + PcStep(m.rev, mode),
                    !.cpu.extra_cycles = IF cross THEN 1 ELSE @], addr)

\* the pointer reads without the wrap of ind inside its page
pointer_bytes_across_page(m, mode, w) ==
  IF mode = "ind" THEN <<w, w + 1>>
  ELSE IF mode = "indx"
  THEN <<(w + m.cpu.x) % 256, (w + m.cpu.x + 1) % 256>>
  ELSE <<w, (w + 1) % 256>>

\* the two bytes ind, indx and indy read through the operand w, in the
\* order the revision reads them
PointerBytes(m, mode, w) ==
  IF mode = "ind"
  THEN IF w % 256 = 255
       THEN IF m.rev = RevA THEN <<w, w - 255>> ELSE <<w - 255, w>>
       ELSE <<w, w + 1>>
  ELSE IF mode = "indx"
  THEN <<(w + m.cpu.x) % 256, (w + m.cpu.x + 1) % 256>>
  ELSE <<w, (w + 1) % 256>>

\* the address ind, indx and indy make of the bytes read through the pointer
Deref(mode, w, r) ==
  LET A    == r.m.rev = RevA
      base == IF mode = "ind" /\ w % 256 = 255 /\ ~A /\ Len(r.val) = 2
              THEN r.val[1] * 256 + r.val[2]
              ELSE Word(r.val)
      addr == IF mode = "indy"
              THEN IF A THEN (base + r.m.cpu.y) % 65536 ELSE base + r.m.cpu.y
              ELSE base
  IN  IF ~Ok(r.m) THEN Ret(r.m, NoAddr)
      ELSE Ret([r.m EXCEPT !.cpu.extra_cycles =
                             IF mode = "indy" /\ PageCross(base, base + r.m.cpu.y)
                             THEN 1 ELSE @], addr)

Resolve(mode, r) ==
  IF ~Ok(r.m)
  THEN Ret([r.m EXCEPT !.cpu.pc = IF r.m.rev = RevA THEN @ + Len(r.val) ELSE @],
           NoAddr)
  ELSE IF mode \in {"ind", "indx", "indy"}
  THEN Deref(mode, Word(r.val),
             ReadSeq([r.m EXCEPT !.cpu.pc = @ + PcStep(r.m.rev, mode)],
                     PointerBytes(r.m, mode, Word(r.val))))
  ELSE Direct(r.m, mode, Word(r.val))

\* The addressing modes: CPU.addr_* (0.11A) and CPU.imm .. CPU.indy (0.1.1B).
AddrMode(m, mode) == Resolve(mode, ReadSeq(m, OperandBytes(m, mode)))

\* the condition each branch instruction tests
BranchCond(m, op) ==
  CASE op = "BCC" -> ~get_flag(m, 1)
    [] op = "BCS" -> get_flag(m, 1)
    [] op = "BEQ" -> get_flag(m, 2)
    [] op = "BNE" -> ~get_flag(m, 2)
    [] op = "BMI" -> get_flag(m, 128)
    [] op = "BPL" -> ~get_flag(m, 128)
    [] op = "BVC" -> ~get_flag(m, 64)
    [] op = "BVS" -> get_flag(m, 64)

Branches == {"BCC", "BCS", "BEQ", "BNE", "BMI", "BPL", "BVC", "BVS"}

Shifts == {"ASL", "LSR", "ROL", "ROR"}

\* the instructions that start with self.nes.read(addr)
ReadOps == {"LDA", "LDX", "LDY", "AND", "ORA", "EOR", "BIT", "ADC", "SBC",
            "CMP", "CPX", "CPY", "INC", "DEC"}

\* the addresses an instruction reads before it changes anything
Loads(m, op, addr) ==
  IF op \in ReadOps THEN <<addr>>
  ELSE IF op \in Shifts THEN (IF addr = NoAddr THEN << >> ELSE <<addr>>)
  ELSE IF op \in {"PLA", "PLP"} THEN pop(m.cpu.sp, 1)
  ELSE IF op = "RTS" THEN pop(m.cpu.sp, 2)
  ELSE IF op = "RTI" THEN pop(m.cpu.sp, 3)
  ELSE IF op \in Branches /\ m.rev = RevA /\ BranchCond(m, op) THEN <<m.cpu.pc>>
  ELSE << >>

\* CPU.op_adc / CPU.ADC and CPU.op_sbc / CPU.SBC on the operand value val;
\* the overflow test is ((a ^ result) & (val ^ result) & 0x80) in 0.11A and
\* ((a ^ val) & 0x80) == 0 and ((a ^ result) & 0x80) != 0 in 0.1.1B
AddWithCarry(m, val) ==
  LET a      == m.cpu.a
      result == a + val + Flag01(m, 1)
      v      == IF m.rev = RevA
                THEN Bit(a, 7) # Bit(result, 7) /\ Bit(val, 7) # Bit(result, 7)
                ELSE Bit(a, 7) = Bit(val, 7) /\ Bit(a, 7) # Bit(result, 7)
  IN  set_zn([set_flag(set_flag(m, 1, result > 255), 64, v)
                EXCEPT !.cpu.a = result % 256], result % 256)

\* CPU.op_cmp / op_cpx / op_cpy and CPU.CMP / CPX / CPY
Compare(m, reg, val) ==
  set_zn(set_flag(m, 1, reg >= val), (reg - val) % 256)

\* the carry a shift moves out of val and the byte it leaves
ShiftOut(op, val) == IF op \in {"ASL", "ROL"} THEN Bit(val, 7) = 1 ELSE val % 2 = 1

\* the shifted value without its & 0xFF
shift_res_unmasked(op, val, carry) ==
  CASE op = "ASL" -> val * 2
    [] op = "LSR" -> val \div 2
    [] op = "ROL" -> val * 2 + carry
    [] op = "ROR" -> val \div 2 + carry * 128

ShiftRes(op, val, carry) ==
  CASE op = "ASL" -> (val * 2) % 256
    [] op = "LSR" -> val \div 2
    [] op = "ROL" -> (val * 2 + carry) % 256
    [] op = "ROR" -> val \div 2 + carry * 128

\* CPU.op_asl .. op_ror / CPU.ASL .. ROR : on the accumulator when addr is
\* None, else read-modify-write with Z and N set after the write
Shift(m, op, addr, vals) ==
  IF addr = NoAddr
  THEN Pure(set_zn([set_flag(m, 1, ShiftOut(op, m.cpu.a))
                      EXCEPT !.cpu.a = ShiftRes(op, m.cpu.a, Flag01(m, 1))],
                   ShiftRes(op, m.cpu.a, Flag01(m, 1))))
  ELSE Plan(set_flag(m, 1, ShiftOut(op, vals[1])),
            <<<<addr, ShiftRes(op, vals[1], Flag01(m, 1))>>>>,
            set_zn(set_flag(m, 1, ShiftOut(op, vals[1])),
                   ShiftRes(op, vals[1], Flag01(m, 1))),
            NoAddr)

\* CPU.branch (0.11A): the relative operand is read only when taken
branch(m, condition, vals) ==
  IF condition
  THEN LET offset == IF vals[1] >= 128 THEN vals[1] - 256 ELSE vals[1]
           old_pc == m.cpu.pc + 1
           new_pc == (old_pc + offset) % 65536
       IN  [m EXCEPT !.cpu.pc = new_pc,
                     !.cpu.extra_cycles = IF PageCross(old_pc, new_pc) THEN 2 ELSE 1]
  ELSE [m EXCEPT !.cpu.pc = @ + 1]

\* CPU.BCC .. CPU.BVS (0.1.1B): the target is the absolute operand
BranchB(m, condition, addr) ==
  IF condition THEN [m EXCEPT !.cpu.pc = addr, !.cpu.cycles = @ + 1] ELSE m

\* self.status = self.pop()
pulled_as_popped(val) == val

\* self.status = (self.pop() & 0xEF) | 0x20
Pulled(val) == SetBit(SetBit(val, 4, 0), 5, 1)

\* the instruction bodies: CPU.op_* (0.11A) and CPU.ADC .. CPU.TYA (0.1.1B),
\* after the reads of Loads returned vals
Effect(m, op, addr, vals) ==
  LET A == m.rev = RevA
      c == m.cpu
  IN  CASE op = "LDA" -> Pure(set_zn([m EXCEPT !.cpu.a = vals[1]], vals[1]))
        [] op = "LDX" -> Pure(set_zn([m EXCEPT !.cpu.x = vals[1]], vals[1]))
        [] op = "LDY" -> Pure(set_zn([m EXCEPT !.cpu.y = vals[1]], vals[1]))
        [] op = "STA" -> Plan(m, <<<<addr, c.a>>>>, m, NoAddr)
        [] op = "STX" -> Plan(m, <<<<addr, c.x>>>>, m, NoAddr)
        [] op = "STY" -> Plan(m, <<<<addr, c.y>>>>, m, NoAddr)
        [] op = "TAX" -> Pure(set_zn([m EXCEPT !.cpu.x = c.a], c.a))
        [] op = "TAY" -> Pure(set_zn([m EXCEPT !.cpu.y = c.a], c.a))
        [] op = "TXA" -> Pure(set_zn([m EXCEPT !.cpu.a = c.x], c.x))
        [] op = "TYA" -> Pure(set_zn([m EXCEPT !.cpu.a = c.y], c.y))
        [] op = "TSX" -> Pure(set_zn([m EXCEPT !.cpu.x = c.sp], c.sp))
        [] op = "TXS" -> Pure([m EXCEPT !.cpu.sp = c.x])
        [] op = "PHA" ->
             Plan(m, push(c.sp, <<c.a>>), [m EXCEPT !.cpu.sp = (@ - 1) % 256], NoAddr)
        [] op = "PHP" ->
             Plan(m, push(c.sp, <<IF A THEN SetField(c.status, 4, 2, 3)
                                       ELSE SetBit(c.status, 4, 1)>>),
                  [m EXCEPT !.cpu.sp = (@ - 1) % 256], NoAddr)
        [] op = "PLA" ->
             Pure(set_zn([m EXCEPT !.cpu.sp = (@ + 1) % 256, !.cpu.a = vals[1]],
                         vals[1]))
        [] op = "PLP" ->
             Pure([m EXCEPT !.cpu.sp = (@ + 1) % 256, !.cpu.status = Pulled(vals[1])])
        [] op = "AND" ->
             Pure(set_zn([m EXCEPT !.cpu.a = BitAnd(c.a, vals[1])], BitAnd(c.a, vals[1])))
        [] op = "ORA" ->
             Pure(set_zn([m EXCEPT !.cpu.a = BitOr(c.a, vals[1])], BitOr(c.a, vals[1])))
        [] op = "EOR" ->
             Pure(set_zn([m EXCEPT !.cpu.a = BitXor(c.a, vals[1])], BitXor(c.a, vals[1])))
        [] op = "BIT" ->
             Pure(set_flag(set_flag(set_flag(m, 128, Bit(vals[1], 7) = 1),
                                    64, Bit(vals[1], 6) = 1),
                           2, BitAnd(c.a, vals[1]) = 0))
        [] op = "ADC" -> Pure(AddWithCarry(m, vals[1]))
        [] op = "SBC" -> Pure(AddWithCarry(m, 255 - vals[1]))
        [] op = "CMP" -> Pure(Compare(m, c.a, vals[1]))
        [] op = "CPX" -> Pure(Compare(m, c.x, vals[1]))
        [] op = "CPY" -> Pure(Compare(m, c.y, vals[1]))
        [] op = "INC" ->
             Plan(m, <<<<addr, (vals[1] + 1) % 256>>>>,
                  set_zn(m, (vals[1] + 1) % 256), NoAddr)
        [] op = "DEC" ->
             Plan(m, <<<<addr, (vals[1] - 1) % 256>>>>,
                  set_zn(m, (vals[1] - 1) % 256), NoAddr)
        [] op = "INX" -> Pure(set_zn([m EXCEPT !.cpu.x = (c.x + 1) % 256], (c.x + 1) % 256))
        [] op = "DEX" -> Pure(set_zn([m EXCEPT !.cpu.x = (c.x - 1) % 256], (c.x - 1) % 256))
        [] op = "INY" -> Pure(set_zn([m EXCEPT !.cpu.y = (c.y + 1) % 256], (c.y + 1) % 256))
        [] op = "DEY" -> Pure(set_zn([m EXCEPT !.cpu.y = (c.y - 1) % 256], (c.y - 1) % 256))
        [] op \in Shifts -> Shift(m, op, addr, vals)
        [] op = "JMP" -> Pure([m EXCEPT !.cpu.pc = addr])
        [] op = "JSR" ->
             Plan(m, push(c.sp, push16(c.pc - 1)),
                  [m EXCEPT !.cpu.sp = (@ - 2) % 256, !.cpu.pc = addr], NoAddr)
        [] op = "RTS" ->
             Pure([m EXCEPT !.cpu.sp = (@ + 2) % 256, !.cpu.pc = Word(vals) + 1])
        [] op = "RTI" ->
             Pure([m EXCEPT !.cpu.sp = (@ + 3) % 256,
                            !.cpu.status = Pulled(vals[1]),
                            !.cpu.pc = vals[3] * 256 + vals[2]])
        [] op \in Branches ->
             Pure(IF A THEN branch(m, BranchCond(m, op), vals)
                       ELSE BranchB(m, BranchCond(m, op), addr))
        [] op = "CLC" -> Pure(set_flag(m, 1, FALSE))
        [] op = "SEC" -> Pure(set_flag(m, 1, TRUE))
        [] op = "CLI" -> Pure(set_flag(m, 4, FALSE))
        [] op = "SEI" -> Pure(set_flag(m, 4, TRUE))
        [] op = "CLV" -> Pure(set_flag(m, 64, FALSE))
        [] op = "CLD" -> Pure(set_flag(m, 8, FALSE))
        [] op = "SED" -> Pure(set_flag(m, 8, TRUE))
        [] op = "NOP" -> Pure(m)
        [] op = "BRK" ->
             Plan([m EXCEPT !.cpu.pc = IF A THEN @ + 1 ELSE @],
                  push(c.sp, push16(c.pc + 1)
                             \o <<IF A THEN SetField(c.status, 4, 2, 3)
                                       ELSE SetBit(c.status, 4, 1)>>),
                  set_flag([m EXCEPT !.cpu.pc = IF A THEN @ + 1 ELSE @,
                                     !.cpu.sp = (@ - 3) % 256], 4, TRUE),
                  65534)

Perform(op, addr, r) ==
  IF ~Ok(r.m) THEN r.m ELSE Carry(Effect(r.m, op, addr, r.val))

\* one instruction body, from its first read to its last assignment
Exec(m, op, addr) == Perform(op, addr, ReadSeq(m, Loads(m, op, addr)))

-----------------------------------------------------------------------------
(* Rendering and the PPU clock, revision 0.1.1B.                            *)

\* PPU.nes_palette: the RGB value of each of the 64 palette indices
nes_palette ==
  << 6710886, 10888, 1315495, 3866788, 6029438, 7209024, 7079424, 5643520,
     3355904, 739328, 20992, 20232, 16461, 0, 0, 0,
     11382189, 1400793, 4341503, 7678974, 10492620, 11999867, 11874592, 10047744,
     7040256, 3704576, 823040, 36658, 31885, 0, 0, 0,
     16776959, 6598911, 9605375, 13006591, 15952639, 16674508, 16679280, 15375906,
     12369408, 8968192, 6087728, 4579458, 4771294, 5197647, 0, 0,
     16776959, 12640255, 13882111, 15255807, 16499455, 16696554, 16698565, 16242853,
     1499860, 13627286, 12448939, 11793356, 11922418, 12105912, 0, 0 >>

\* PPU.read at each of addrs in turn, up to the first that raises
RECURSIVE PPUReadSeq(_, _), PPUReadRest(_, _)
PPUReadSeq(m, addrs) ==
  IF addrs = << >> THEN Ret(m, << >>)
  ELSE PPUReadRest(PPUReadB(m, Head(addrs)), Tail(addrs))

PPUReadRest(r, rest) ==
  IF ~Ok(r.m) THEN Ret(r.m, << >>) ELSE Cons(r.val, PPUReadSeq(r.m, rest))

\* ((plane1 >> bit) & 1) << 1 | ((plane0 >> bit) & 1)
PlaneColor(planes, bit) == Bit(planes[2], bit) * 2 + Bit(planes[1], bit)

\* the end of PPU.render_background: palette << 2 | color if color else 0
BgColor(palette, fine_x, r) ==
  IF ~Ok(r.m) THEN Ret(r.m, 0)
  ELSE IF PlaneColor(r.val, 7 - fine_x) # 0
  THEN Ret(r.m, palette * 4 + PlaneColor(r.val, 7 - fine_x))
  ELSE Ret(r.m, 0)

\* PPU.render_background once the attribute and name table bytes are read
BgTile(r) ==
  LET v         == r.m.ppu.v
      fine_x    == (v % 32) \div 4096
      fine_y    == Field(v, 2, 3)
      tile_x    == Field(v, 5, 5)
      tile_y    == Field(v, 10, 5)
      shift     == Bit(tile_y, 1) * 4 + Bit(tile_x, 1) * 2
      tile_addr == (IF Bit(r.m.ppu.ctrl, 4) = 1 THEN 4096 ELSE 0) + r.val[2] * 16
  IN  IF ~Ok(r.m) THEN Ret(r.m, 0)
      ELSE BgColor(Field(r.val[1], shift, 2), fine_x,
                   PPUReadSeq(r.m, <<tile_addr + fine_y, tile_addr + fine_y + 8>>))

\* PPU.render_background
render_background(m) ==
  IF Bit(m.ppu.mask, 3) = 0 THEN Ret(m, 0)
  ELSE LET v         == m.ppu.v
           tile_x    == Field(v, 5, 5)
           tile_y    == Field(v, 10, 5)
           nametable == Field(v, 8, 2)
       IN  BgTile(PPUReadSeq(m, <<9152 + nametable * 1024 + (tile_y \div 4) * 8
                                     + tile_x \div 4,
                                  8192 + nametable * 1024 + tile_y * 32 + tile_x>>))

\* the for loop of PPU.render_sprites from sprite i on, sprite_count sprites
\* already found on this column; the value is <<palette, priority>>
RECURSIVE SpriteScan(_, _, _), SpritePixel(_, _, _, _, _)
SpriteScan(m, i, sprite_count) ==
  IF i = 64 THEN Ret(m, <<0, FALSE>>)
  ELSE LET p      == m.ppu
           y_pos  == Get(p.oam, i * 4)
           tile   == Get(p.oam, i * 4 + 1)
           attr   == Get(p.oam, i * 4 + 2)
           x_pos  == Get(p.oam, i * 4 + 3)
           height == IF Bit(p.ctrl, 5) = 1 THEN 16 ELSE 8
           rx0    == (p.cycle - 1) - x_pos
           ry0    == (p.scanline - y_pos - 1) % height
           rel_x  == IF Bit(attr, 6) = 1 THEN 7 - rx0 ELSE rx0
           rel_y  == IF Bit(attr, 7) = 1 THEN height - 1 - ry0 ELSE ry0
           bank   == IF height = 16 THEN (tile % 2) * 4096
                     ELSE IF Bit(p.ctrl, 3) = 1 THEN 4096 ELSE 0
           tile_idx  == IF height = 16
                        THEN SetBit(SetBit(tile, 0, 0), 3,
                                    IF Bit(rel_y, 3) = 1 THEN 1 ELSE Bit(tile, 3))
                        ELSE tile
           tile_addr == bank + tile_idx * 16 + (rel_y % 8)
       IN  IF y_pos > 239 THEN SpriteScan(m, i + 1, sprite_count)
           ELSE IF ~(x_pos <= p.cycle - 1 /\ p.cycle - 1 < x_pos + 8)
           THEN SpriteScan(m, i + 1, sprite_count)
           ELSE IF sprite_count + 1 > 8
           THEN Ret([m EXCEPT !.ppu.status = SetBit(@, 5, 1)], <<0, FALSE>>)
           ELSE SpritePixel(PPUReadSeq(m, <<tile_addr, tile_addr + 8>>),
                            i, sprite_count + 1, attr, 7 - rel_x)

\* the end of one pass of that loop, the two pattern planes read
SpritePixel(r, i, sprite_count, attr, bit) ==
  IF ~Ok(r.m) THEN Ret(r.m, <<0, FALSE>>)
  ELSE IF PlaneColor(r.val, bit) = 0 THEN SpriteScan(r.m, i + 1, sprite_count)
  ELSE Ret(r.m, <<16 + (attr % 4) * 4 + PlaneColor(r.val, bit), Bit(attr, 5) = 1>>)

\* PPU.render_sprites
render_sprites(m) ==
  IF ~Ok(m) \/ Bit(m.ppu.mask, 4) = 0 THEN Ret(m, <<0, FALSE>>)
  ELSE SpriteScan(m, 0, 0)

\* self.back_buffer[y * 256 + x] = self.nes_palette[palette_idx] ; the back
\* buffer keeps its most recent write
PutPixel(idx) ==
  IF ~Ok(idx.m) THEN idx.m
  ELSE [idx.m EXCEPT !.ppu.back_buffer =
          [kind |-> "pixel",
           at |-> idx.m.ppu.scanline * 256 + (idx.m.ppu.cycle - 1),
           rgb |-> nes_palette[(idx.val % 64) + 1]]]

\* the colour PPU.render_pixel picks from the two layers, then its write
Mix(bg_color, sp) ==
  LET showB == Bit(sp.m.ppu.mask, 3) = 1
      showS == Bit(sp.m.ppu.mask, 4) = 1
      color == IF showB /\ showS
               THEN IF sp.val[1] # 0 /\ (~sp.val[2] \/ bg_color = 0)
                    THEN sp.val[1] ELSE bg_color
               ELSE IF showB THEN bg_color
               ELSE IF showS THEN sp.val[1]
               ELSE 0
  IN  PutPixel(PPUReadB(sp.m, 16128 + color))

Layers(bg) == Mix(bg.val, render_sprites(bg.m))

\* PPU.render_pixel
render_pixel(m) ==
  IF m.ppu.cycle - 1 < 0 \/ m.ppu.cycle - 1 >= 256
     \/ m.ppu.scanline < 0 \/ m.ppu.scanline >= 240
  THEN m
  ELSE Layers(render_background(m))

\* the counters of PPU.tick with a line that ends one dot early
clock_short_line(m) ==
  LET q   == m.ppu
      eol == q.cycle + 1 >= 340
      eof == eol /\ q.scanline + 1 >= 262
  IN  IF ~Ok(m) THEN m
      ELSE [m EXCEPT !.ppu.cycle = IF eol THEN 0 ELSE q.cycle + 1,
                     !.ppu.scanline = IF eof THEN 0
                                      ELSE IF eol THEN q.scanline + 1 ELSE @,
                     !.ppu.frame = IF eof THEN @ + 1 ELSE @,
                     !.ppu.front_buffer = IF eof THEN q.back_buffer ELSE @,
                     !.ppu.back_buffer = IF eof THEN q.front_buffer ELSE @]

\* the second half of PPU.tick: the dot, line and frame counters
Clock(m) ==
  LET q   == m.ppu
      eol == q.cycle + 1 >= 341
      eof == eol /\ q.scanline + 1 >= 262
  IN  IF ~Ok(m) THEN m
      ELSE [m EXCEPT !.ppu.cycle = IF eol THEN 0 ELSE q.cycle + 1,
                     !.ppu.scanline = IF eof THEN 0
                                      ELSE IF eol THEN q.scanline + 1 ELSE @,
                     !.ppu.frame = IF eof THEN @ + 1 ELSE @,
                     !.ppu.front_buffer = IF eof THEN q.back_buffer ELSE @,
                     !.ppu.back_buffer = IF eof THEN q.front_buffer ELSE @]

\* the first half of PPU.tick: the pixel, or the start of vertical blank
Dot(m) ==
  IF m.ppu.scanline < 240
  THEN IF m.ppu.cycle < 256 THEN render_pixel(m) ELSE m
  ELSE IF m.ppu.scanline = 241 /\ m.ppu.cycle = 1
  THEN IF Bit(m.ppu.ctrl, 7) = 1
       THEN [m EXCEPT !.ppu.status = SetBit(@, 7, 1),
                      !.ppu.nmi_occurred = TRUE,
                      !.cpu.nmi_pending = TRUE]
       ELSE [m EXCEPT !.ppu.status = SetBit(@, 7, 1)]
  ELSE m

\* PPU.tick
tick(m) == IF ~Ok(m) THEN m ELSE Clock(Dot(m))

-----------------------------------------------------------------------------
(* Reset and the instruction step.                                          *)

\* the last three assignments of CPU.reset
Vectored(r) ==
  IF ~Ok(r.m) THEN r.m
  ELSE [r.m EXCEPT !.cpu.pc = r.val, !.cpu.cycles = 7, !.cpu.total_cycles = 0]

\* CPU.reset (the same statements in both revisions)
reset(m) ==
  Vectored(Read16([m EXCEPT !.cpu.a = 0, !.cpu.x = 0, !.cpu.y = 0,
                            !.cpu.sp = 253, !.cpu.status = 36], 65532))

\* what a step reports: the cycles it charged and what it did
Did(cycles, kind, opcode) == [cycles |-> cycles, kind |-> kind, opcode |-> opcode]

\* the return of CPU.step after an interrupt sequence, the request flags
\* left as they were
served_flag_kept(m, kind) ==
  IF ~Ok(m) THEN Ret(m, Did(0, "raised", -1)) ELSE Ret(m, Did(7, kind, -1))

\* self.nmi() ; self.nmi_pending = False ; return 7   (and the same for irq)
Served(m, kind) ==
  IF ~Ok(m) THEN Ret(m, Did(0, "raised", -1))
  ELSE IF kind = "nmi"
  THEN Ret([m EXCEPT !.cpu.nmi_pending = FALSE], Did(7, kind, -1))
  ELSE Ret([m EXCEPT !.cpu.irq_pending = FALSE], Did(7, kind, -1))

\* the handler of an opcode the table holds, after its addressing mode
RunOp(opcode, a) ==
  IF Ok(a.m) THEN Exec(a.m, op_table[opcode].op, a.val) ELSE a.m

\* the end of CPU.step, 0.11A: cycles = cycles_table[opcode] + extra_cycles
ChargeA(opcode, m) ==
  IF ~Ok(m) THEN Ret(m, Did(0, "raised", opcode))
  ELSE Ret([m EXCEPT !.cpu.total_cycles = @ + cycles_table[opcode] + m.cpu.extra_cycles],
           Did(cycles_table[opcode] + m.cpu.extra_cycles, "op", opcode))

\* CPU.step, 0.11A, from the fetched opcode on
DecodeA(f) ==
  IF ~Ok(f.m) THEN Ret(f.m, Did(0, "raised", -1))
  ELSE IF op_table[f.val].op = "None"
  THEN Ret([f.m EXCEPT !.cpu.pc = (@ + 1) % 65536, !.cpu.extra_cycles = 0,
                       !.cpu.total_cycles = @ + 2],
           Did(2, "illegal", f.val))
  ELSE ChargeA(f.val,
               RunOp(f.val,
                     AddrMode([f.m EXCEPT !.cpu.pc = (@ + 1) % 65536,
                                          !.cpu.extra_cycles = 0],
                              IF op_table[f.val].mode = "rel" THEN "none"
                              ELSE op_table[f.val].mode)))

\* CPU.step, 0.11A, after the test of console_active and paused
StepBodyA(m) ==
  IF m.cpu.nmi_pending THEN Served(nmi(m), "nmi")
  ELSE IF m.cpu.irq_pending /\ ~get_flag(m, 4) THEN Served(irq(m), "irq")
  ELSE DecodeA(Read(m, m.cpu.pc))

\* CPU.step, revision 0.11A ; its value is the Did of the return value
StepA(m) ==
  IF m.sys_bus.console_active \/ m.sys_bus.paused THEN Ret(m, Did(2, "frozen", -1))
  ELSE StepBodyA(m)

\* the end of CPU.step, 0.1.1B
ChargeB(opcode, m) ==
  IF ~Ok(m) THEN Ret(m, Did(0, "raised", opcode))
  ELSE Ret([m EXCEPT !.cpu.cycles = @ + cycles_table[opcode] + m.cpu.extra_cycles,
                     !.cpu.total_cycles = @ + cycles_table[opcode] + m.cpu.extra_cycles,
                     !.cpu.extra_cycles = 0],
           Did(cycles_table[opcode] + m.cpu.extra_cycles, "op", opcode))

\* CPU.step, 0.1.1B, from the fetched opcode on ; unpacking the None of an
\* opcode the table does not hold raises TypeError
DecodeB(f) ==
  IF ~Ok(f.m) THEN Ret(f.m, Did(0, "raised", -1))
  ELSE IF op_table[f.val].op = "None"
  THEN Ret(Raise([f.m EXCEPT !.cpu.pc = @ + 1], "TypeError"),
           Did(0, "raised", f.val))
  ELSE ChargeB(f.val,
               RunOp(f.val, AddrMode([f.m EXCEPT !.cpu.pc = @ + 1],
                                     op_table[f.val].mode)))

\* CPU.step, revision 0.1.1B ; it returns None, the Did is what it charged
StepB(m) ==
  IF m.cpu.nmi_pending THEN Served(nmi(m), "nmi")
  ELSE IF m.cpu.irq_pending /\ ~get_flag(m, 4) THEN Served(irq(m), "irq")
  ELSE DecodeB(Read(m, m.cpu.pc))

Step(m) == IF m.rev = RevA THEN StepA(m) ELSE StepB(m)

-----------------------------------------------------------------------------
(* Cartridge loading.                                                       *)

\* the sparse map of a table of bytes
Sparse(f) == [k \in { j \in DOMAIN f : f[j] # 0 } |-> f[k]]

\* rom[i] of a byte string ; Python raises IndexError past the end
InRange(data, i) == i < data.len

\* b'NES\x1A' and b'NES'
Magic4 == Bytes(4, Sparse([k \in 0 .. 3 |-> <<78, 69, 83, 26>>[k + 1]]))
Magic3 == Bytes(3, Sparse([k \in 0 .. 2 |-> <<78, 69, 83>>[k + 1]]))

\* the end of NES.load_rom, 0.11A: the except clause, or rom_loaded = True
LoadedA(m) ==
  IF ~Ok(m) THEN Ret([m EXCEPT !.err = "none"], FALSE)
  ELSE Ret([m EXCEPT !.sys_bus.rom_loaded = TRUE], TRUE)

\* NES.load_rom, revision 0.11A: the file at filepath holds the bytes of
\* file.  Every exception is caught; the value is the returned flag.
LoadRomA(m, file) ==
  LET header    == Slice(file, 0, 16)
      prg_banks == Get(header.at, 4)
      chr_banks == Get(header.at, 5)
      flags6    == Get(header.at, 6)
      flags7    == Get(header.at, 7)
      prg_data  == Slice(file, 16, 16 + prg_banks * 16384)
      pos       == header.len + prg_data.len
  IN  IF Slice(header, 0, 4) # Magic4 THEN Ret(m, FALSE)
      ELSE IF ~InRange(header, 7) THEN Ret(m, FALSE)
      ELSE LoadedA(reset(
             [m EXCEPT !.nes.mapper = SetField(flags7, 0, 4, flags6 \div 16),
                       !.nes.prg_rom = IF prg_data.len = 16384
                                       THEN Concat(prg_data, prg_data)
                                       ELSE Slice(prg_data, 0, 32768),
                       !.ppu.chr_rom = IF chr_banks > 0
                                       THEN Slice(file, pos, pos + chr_banks * 8192)
                                       ELSE @]))

\* the end of NES.load_rom, 0.1.1B: sys_bus.rom_loaded = True
LoadedB(m) == IF ~Ok(m) THEN m ELSE [m EXCEPT !.sys_bus.rom_loaded = TRUE]

\* NES.load_rom, revision 0.1.1B: exceptions reach the caller
LoadRomB(m, rom_data) ==
  LET prg_banks == Get(rom_data.at, 4)
      chr_banks == Get(rom_data.at, 5)
      flags6    == Get(rom_data.at, 6)
      prg_start == 16
      chr_start == prg_start + prg_banks * 16384
  IN  IF Slice(rom_data, 0, 3) # Magic3 THEN Raise(m, "ValueError")
      ELSE IF ~InRange(rom_data, 6) THEN Raise(m, "IndexError")
      ELSE LoadedB(reset(
             [m EXCEPT !.nes.mirroring = flags6 % 2,
                       !.nes.rom = [prg |-> Slice(rom_data, prg_start, chr_start),
                                    chr |-> Slice(rom_data, chr_start,
                                                  chr_start + chr_banks * 8192)]]))

-----------------------------------------------------------------------------
(* Revision 1.0: FCEUX_Core.  Its fields are kept in nes; it has no CPU or   *)
(* PPU object.                                                              *)

\* NES_Mirroring
HORIZONTAL == 0
VERTICAL == 1
FOUR_SCREEN == 2

\* NES_MapperType.iNES
iNES == 1

\* FCEUX_Core.__init__ followed by the reset() it ends with
Core_C == [ram |-> EmptyMap, vram |-> EmptyMap, palette |-> EmptyMap,
           rom_data |-> None, mapper_type |-> iNES, mirroring |-> HORIZONTAL,
           controller1 |-> 0, controller2 |-> 0, controller_latch |-> 0,
           scanline |-> 0, cycle |-> 0, frame_count |-> 0,
           ppu_ctrl |-> 0, ppu_mask |-> 0, ppu_status |-> 0]

Absent == [absent |-> TRUE]

\* FCEUX_Core.load_rom
LoadRomC(m, rom_data) ==
  LET m1     == [m EXCEPT !.nes.rom_data = rom_data]
      header == Slice(rom_data, 0, 16)
      flags6 == Get(header.at, 6)
  IN  IF rom_data.len >= 16 /\ Slice(header, 0, 4) = Magic4
      THEN Ret([m1 EXCEPT !.nes.mapper_type = iNES,
                          !.nes.mirroring =
                             IF Bit(flags6, 3) = 1 THEN FOUR_SCREEN
                             ELSE IF Bit(flags6, 0) = 1 THEN VERTICAL
                             ELSE HORIZONTAL],
               TRUE)
      ELSE Ret(m1, FALSE)

\* FCEUX_Core.ppu_read_register
ppu_read_register(m, address) ==
  IF address % 8 = 2
  THEN Ret([m EXCEPT !.nes.ppu_status = SetBit(@, 7, 0)], m.nes.ppu_status)
  ELSE Ret(m, 0)

\* FCEUX_Core.ppu_write_register
ppu_write_register(m, address, value) ==
  CASE address % 8 = 0 -> [m EXCEPT !.nes.ppu_ctrl = value]
    [] address % 8 = 1 -> [m EXCEPT !.nes.ppu_mask = value]
    [] OTHER -> m

\* FCEUX_Core.read_controller
read_controller(m, controller_num) ==
  IF controller_num = 1
  THEN Bit(m.nes.controller1, m.nes.controller_latch)
  ELSE Bit(m.nes.controller2, m.nes.controller_latch)

\* FCEUX_Core.write_controller
write_controller(m, value) ==
  IF value % 2 = 1 THEN [m EXCEPT !.nes.controller_latch = 0]
  ELSE [m EXCEPT !.nes.controller_latch = (@ + 1) % 8]

\* FCEUX_Core.cpu_read
cpu_read(m, address0) ==
  LET address == address0 % 65536
  IN  IF address < 8192 THEN Ret(m, Get(m.nes.ram, address % 2048))
      ELSE IF address < 16384 THEN ppu_read_register(m, 8192 + (address % 8))
      ELSE IF address = 16406 THEN Ret(m, read_controller(m, 1))
      ELSE IF address = 16407 THEN Ret(m, read_controller(m, 2))
      ELSE IF address >= 32768 /\ m.nes.rom_data # None /\ m.nes.rom_data.len > 0
      THEN Ret(m, Get(m.nes.rom_data.at, (address - 32768) % m.nes.rom_data.len))
      ELSE Ret(m, 0)

\* FCEUX_Core.cpu_write
cpu_write(m, address0, value0) ==
  LET address == address0 % 65536
      value   == value0 % 256
  IN  IF address < 8192 THEN [m EXCEPT !.nes.ram = Put(@, address % 2048, value)]
      ELSE IF address < 16384 THEN ppu_write_register(m, 8192 + (address % 8), value)
      ELSE IF address = 16406 THEN write_controller(m, value)
      ELSE m

-----------------------------------------------------------------------------
(* The three buses and loaders behind one name each.                        *)

BusRead(m, addr) == IF m.rev = RevC THEN cpu_read(m, addr) ELSE Read(m, addr)

BusWrite(m, addr, val) ==
  IF m.rev = RevC THEN cpu_write(m, addr, val) ELSE Write(m, addr, val)

\* a call that returns nothing: whether it returned at all
Returned(m) == Ret(m, Ok(m))

load_rom(m, image) ==
  CASE m.rev = RevA -> LoadRomA(m, image)
    [] m.rev = RevB -> Returned(LoadRomB(m, image))
    [] m.rev = RevC -> LoadRomC(m, image)

-----------------------------------------------------------------------------
(* Cartridge images the environment offers.                                 *)

\* an iNES file of the given length: 16 header bytes, then PRG whose
\* non-zero bytes are prg (offsets from the start of PRG), cut at length
INesFile(magic4, prg_banks, chr_banks, flags6, flags7, length, prg) ==
  LET header == Sparse([k \in 0 .. 7 |->
                  <<78, 69, 83, magic4, prg_banks, chr_banks, flags6, flags7>>[k + 1]])
      all    == [k \in (DOMAIN header) \cup { 16 + j : j \in DOMAIN prg } |->
                  IF k < 16 THEN header[k] ELSE prg[k - 16]]
  IN  Bytes(length, [k \in { j \in DOMAIN all : j < length } |-> all[k]])

\* bytes placed from offset at on
Code(at, bytes) == Sparse([k \in at .. at + Len(bytes) - 1 |-> bytes[k - at + 1]])

Join(f, g) == [k \in (DOMAIN f) \cup (DOMAIN g) |-> IF k \in DOMAIN f THEN f[k] ELSE g[k]]

\* what the iNES format asks of a file: the magic, a whole header, and the
\* PRG and CHR banks the header declares
ValidImage(file) ==
  /\ file.len >= 16
  /\ Slice(file, 0, 4) = Magic4
  /\ file.len >= 16 + Get(file.at, 4) * 16384 + Get(file.at, 5) * 8192

\* one 16 KiB bank: an undefined opcode (0x02) at the reset target 0x8000
CartUndefined ==
  INesFile(26, 1, 0, 0, 0, 16 + 16384,
           Join(Code(0, <<2>>), Code(16380, <<0, 128>>)))

\* two banks: DEX ; TXS ; LDA $2002 ; JMP $8000, reset vector 0x8000
CartTwoBanks ==
  INesFile(26, 2, 0, 1, 0, 16 + 32768,
           Join(Code(0, <<202, 154, 173, 2, 32, 76, 0, 128>>), Code(32764, <<0, 128>>)))

\* the same image with a wrong fourth magic byte
CartBadMagic ==
  INesFile(0, 2, 0, 1, 0, 16 + 32768,
           Join(Code(0, <<202, 154, 173, 2, 32, 76, 0, 128>>), Code(32764, <<0, 128>>)))

\* a file that ends inside the header
CartShortHeader == INesFile(26, 2, 0, 17, 0, 10, EmptyMap)

\* a file that ends inside the PRG the header declares
CartTruncated ==
  INesFile(26, 2, 0, 17, 0, 16 + 100, Code(0, <<202, 154, 76, 0, 128>>))

\* a whole header that declares no PRG bank
CartNoPrg == INesFile(26, 0, 0, 0, 0, 16, EmptyMap)

Cartridges ==
  <<CartUndefined, CartTwoBanks, CartBadMagic, CartShortHeader, CartTruncated, CartNoPrg>>

-----------------------------------------------------------------------------
(* State.                                                                   *)

\* SystemBus.__init__
SystemBus_Init == [console_active |-> FALSE, rom_loaded |-> FALSE,
                   debug_mode |-> FALSE, paused |-> FALSE, frame_skip |-> 0]

\* the number of operations the environment performs in one behaviour
MaxOps == 4

\* the machine record of the current state
M == [rev |-> rev, cpu |-> cpu, ppu |-> ppu, nes |-> nes, sys_bus |-> sys_bus,
      err |-> "none"]

\* the objects of the next state are those of m
Commit(m) ==
  /\ rev' = rev
  /\ cpu' = m.cpu
  /\ ppu' = m.ppu
  /\ nes' = m.nes
  /\ sys_bus' = m.sys_bus

\* the record of the most recent call: which operation, its argument, the
\* value it wrote or returned, whether it succeeded, the exception it raised
Called(op, arg, val, ok, err, kind) ==
  [op |-> op, arg |-> arg, val |-> val, ok |-> ok, err |-> err, kind |-> kind]

\* run_frame is not running ; before counts the CPU cycles of the calls that
\* came before the one consumed counts
Idle == [pc |-> "idle", cycles |-> 0, ticks |-> 0, consumed |-> 0, steps |-> 0,
         stalled |-> 0, before |-> 0]

Objects(r) ==
  /\ rev = r
  /\ cpu = IF r = RevC THEN Absent ELSE CPU_Init
  /\ ppu = CASE r = RevA -> PPU_A [] r = RevB -> PPU_B [] r = RevC -> Absent
  /\ nes = CASE r = RevA -> NES_A [] r = RevB -> NES_B [] r = RevC -> Core_C
  /\ sys_bus = SystemBus_Init

Init ==
  /\ \E r \in {RevA, RevB, RevC} : Objects(r)
  /\ frame = Idle
  /\ last = Called("none", 0, 0, TRUE, "none", "none")
  /\ ops_left = MaxOps

-----------------------------------------------------------------------------
(* The operations of the core, called one at a time.                        *)

\* addresses and values the environment reads and writes
ReadAddrs == {0, 8194, 8202, 16406, 16408, 32767, 32768, 65532}
WriteAddrs == {0, 8192, 8200}
WriteVals == {2, 128}

CanCall == ops_left > 0 /\ frame.pc = "idle"

\* the call op(arg) gave r: the objects it leaves and the record of the call
Finish(op, arg, r) ==
  /\ Commit(r.m)
  /\ last' = Called(op, arg, r.val, Ok(r.m), r.m.err, "none")

\* load_rom of the i-th image gave r ; ok is the flag it reported
Loaded(i, r) ==
  /\ Commit(r.m)
  /\ last' = Called("load_rom", i, 0, r.val, r.m.err, "none")

\* a CPU step gave r
Stepped(op, r) ==
  /\ Commit(r.m)
  /\ last' = Called(op, r.val.opcode, r.val.cycles, Ok(r.m), r.m.err, r.val.kind)

\* nes.load_rom(...) with the i-th image
LoadRom(i) ==
  /\ CanCall
  /\ Loaded(i, load_rom(M, Cartridges[i]))
  /\ ops_left' = ops_left - 1
  /\ UNCHANGED frame

\* nes.cpu.reset(): the Reset button of 0.11A, the console's reset command
Reset ==
  /\ CanCall
  /\ rev # RevC
  /\ Finish("reset", 0, Ret(reset(M), 0))
  /\ ops_left' = ops_left - 1
  /\ UNCHANGED frame

\* nes.cpu.step()
CpuStep ==
  /\ CanCall
  /\ rev # RevC
  /\ Stepped("step", Step(M))
  /\ ops_left' = ops_left - 1
  /\ UNCHANGED frame

\* nes.read(addr) / core.cpu_read(addr)
NesRead(addr) ==
  /\ CanCall
  /\ Finish("read", addr, BusRead(M, addr))
  /\ ops_left' = ops_left - 1
  /\ UNCHANGED frame

\* nes.write(addr, val) / core.cpu_write(addr, val)
NesWrite(addr, val) ==
  /\ CanCall
  /\ Finish("write", addr, Ret(BusWrite(M, addr, val), val))
  /\ ops_left' = ops_left - 1
  /\ UNCHANGED frame

Next ==
  \/ \E i \in 1 .. Len(Cartridges) : LoadRom(i)
  \/ Reset
  \/ CpuStep
  \/ \E a \in ReadAddrs : NesRead(a)
  \/ \E a \in WriteAddrs, v \in WriteVals : NesWrite(a, v)

Spec == Init /\ [][Next]_vars

-----------------------------------------------------------------------------
(* Properties of the single operations.                                     *)

\* C4: CPU.reset(), called in any reachable state of either CPU revision,
\* completes and leaves A = X = Y = 0, SP = 0xFD, status = 0x24, cycles = 7
\* and PC = read(0xFFFC) | (read(0xFFFD) << 8).
C4_ResetState ==
  last.op = "reset" =>
    /\ last.ok
    /\ cpu.a = 0 /\ cpu.x = 0 /\ cpu.y = 0
    /\ cpu.sp = 253
    /\ cpu.status = 36
    /\ cpu.cycles = 7
    /\ cpu.pc = Read16(M, 65532).val

\* the byte the next fetch of the CPU returns is not in the instruction set
UndefinedAtPC ==
  /\ rev # RevC
  /\ ~cpu.nmi_pending
  /\ ~(cpu.irq_pending /\ ~get_flag(M, 4))
  /\ ~(rev = RevA /\ (sys_bus.console_active \/ sys_bus.paused))
  /\ Ok(Read(M, cpu.pc).m)
  /\ Read(M, cpu.pc).val \notin Official

\* C5: a step that fetches an undefined opcode completes without raising,
\* charges 2 cycles, advances PC by one and leaves A, X, Y, SP, status and
\* memory as they were, in both CPU revisions.
C5_UndefinedOpcodeIsNop ==
  [][(CpuStep /\ UndefinedAtPC) =>
       /\ last'.ok
       /\ last'.val = 2
       /\ cpu'.pc = cpu.pc + 1
       /\ cpu'.a = cpu.a /\ cpu'.x = cpu.x /\ cpu'.y = cpu.y
       /\ cpu'.sp = cpu.sp /\ cpu'.status = cpu.status
       /\ nes' = nes /\ ppu' = ppu]_vars

\* C6: load_rom of an invalid image (wrong magic, or too short for the
\* header or for the PRG/CHR it declares) reports the failure and changes
\* no object of the machine, in every revision.
C6_InvalidCartridgeRejected ==
  [][\A i \in 1 .. Len(Cartridges) :
       (LoadRom(i) /\ ~ValidImage(Cartridges[i])) =>
         /\ ~last'.ok
         /\ UNCHANGED <<cpu, ppu, nes, sys_bus>>]_vars

\* the addresses of the unmapped range 0x4018..0x7FFF that are read
UnmappedAddrs == {16408, 24576, 32767}

\* C7: in every reachable state a read of any address returns a byte without
\* raising, and a read of 0x4018..0x7FFF returns 0 and changes nothing.
C7_EveryReadSucceeds ==
  /\ \A a \in ReadAddrs \cup UnmappedAddrs :
       /\ Ok(BusRead(M, a).m)
       /\ BusRead(M, a).val \in Byte
  /\ \A a \in UnmappedAddrs : BusRead(M, a) = Ret(M, 0)

\* the CTRL and STATUS registers and the write toggle of machine m
CtrlOf(m) == IF m.rev = RevC THEN m.nes.ppu_ctrl ELSE m.ppu.ctrl
StatusOf(m) == IF m.rev = RevC THEN m.nes.ppu_status ELSE m.ppu.status

\* addresses of 0x2000..0x3FFF decoding to registers 0, 2 and others
PpuAddrs == {8192, 8194, 8200, 8202, 12293, 16378, 16383}

\* C10: an access to any address a of 0x2000..0x3FFF has the effect of the
\* access to 0x2000 + (a & 7); a read of 0x2002 is the STATUS read (it
\* clears bit 7) and a write to 0x2000 stores the value in CTRL.
C10_PpuRegisterDecode ==
  /\ \A a \in PpuAddrs :
       /\ BusRead(M, a) = BusRead(M, 8192 + (a % 8))
       /\ \A v \in WriteVals : BusWrite(M, a, v) = BusWrite(M, 8192 + (a % 8), v)
  /\ \A v \in WriteVals :
       /\ Ok(BusWrite(M, 8192, v))
       /\ CtrlOf(BusWrite(M, 8192, v)) = v
  /\ Ok(BusRead(M, 8194).m)
  /\ StatusOf(BusRead(M, 8194).m) = StatusOf(M) % 128

-----------------------------------------------------------------------------
(* run_frame, one pass of its while loop at a time, and the environment     *)
(* around it: the GUI thread that calls it, the console thread that sets    *)
(* the shared flags.                                                        *)

\* target_cycles of NES.run_frame in 0.11A and in 0.1.1B
TargetCyclesA == 29780
TargetCyclesB == 29781

\* the PPU clocks of one video frame and the clock at which VBlank begins
DotsPerLine == 341
LinesPerFrame == 262
VBlankLine == 241

\* run_frame calls per behaviour, by revision
MaxFramesA == 2
MaxFramesB == 3

\* passes of the loop in a row that leave the cycle count where it was
MaxStalled == 3

\* 0.11A: LDA #$80 ; STA $2000 ; STA $2006 ; L: LDA $2002 ; JMP L, with the
\* NMI handler RTI at 0x8010 ; vectors NMI 0x8010, reset 0x8000
CartNmi ==
  INesFile(26, 2, 0, 0, 0, 16 + 32768,
           Join(Code(0, <<169, 128, 141, 0, 32, 141, 6, 32, 173, 2, 32, 76, 8, 128>>),
                Join(Code(16, <<64>>), Code(32762, <<16, 128, 0, 128>>))))

\* both revisions: L: JMP L at the reset target 0x8000
CartLoop ==
  INesFile(26, 1, 0, 0, 0, 16 + 16384,
           Join(Code(0, <<76, 0, 128>>), Code(16380, <<0, 128>>)))

FrameCartridges == <<CartNmi, CartLoop>>

\* the while condition of run_frame
LoopCondition ==
  IF rev = RevA THEN frame.cycles < TargetCyclesA
                ELSE cpu.total_cycles < TargetCyclesB

MaxFrames == IF rev = RevA THEN MaxFramesA ELSE MaxFramesB

InitFrame ==
  /\ \E r \in {RevA, RevB} : Objects(r)
  /\ frame = Idle
  /\ last = Called("none", 0, 0, TRUE, "none", "none")
  /\ ops_left = 0

\* The environment acts in two windows: before the first frame, where a
\* cartridge is loaded and the flags are set, and after the last frame,
\* where the PPU ports are called.
FlagWindow == frame.pc = "idle" /\ nes.frame_count = 0
PortWindow == frame.pc = "idle" /\ nes.frame_count = MaxFrames

\* the file dialog of either GUI: load the i-th image
LoadCart(i) ==
  /\ FlagWindow
  /\ ~sys_bus.rom_loaded
  /\ rev = RevB => i = 2
  /\ Loaded(i, load_rom(M, FrameCartridges[i]))
  /\ UNCHANGED <<frame, ops_left>>

\* toggle_pause of 0.11A ; in 0.1.1B the flag is set from the console
TogglePause ==
  /\ FlagWindow
  /\ sys_bus.rom_loaded
  /\ ~sys_bus.console_active
  /\ sys_bus' = [sys_bus EXCEPT !.paused = ~@]
  /\ last' = Called("pause", 0, 0, TRUE, "none", "none")
  /\ UNCHANGED <<rev, cpu, ppu, nes, frame, ops_left>>

\* god_console begins on its own thread: before the first frame or, inside
\* a frame, while an NMI waits to be taken.  The core of 0.1.1B reads
\* console_active nowhere, so its console is left out.
ConsoleOpen ==
  /\ rev = RevA
  /\ ~sys_bus.console_active
  /\ \/ FlagWindow /\ sys_bus.rom_loaded /\ ~sys_bus.paused
     \/ frame.pc = "loop" /\ cpu.nmi_pending
  /\ sys_bus' = [sys_bus EXCEPT !.console_active = TRUE]
  /\ last' = Called("console", 0, 0, TRUE, "none", "none")
  /\ UNCHANGED <<rev, cpu, ppu, nes, frame, ops_left>>

\* the console's exit command
ConsoleExit ==
  /\ frame.pc = "idle"
  /\ sys_bus.console_active
  /\ sys_bus' = [sys_bus EXCEPT !.console_active = FALSE]
  /\ last' = Called("exit", 0, 0, TRUE, "none", "none")
  /\ UNCHANGED <<rev, cpu, ppu, nes, frame, ops_left>>

\* a read of PPU register 2 after the frames: nes.read(0x2002) in 0.11A,
\* ppu.read_status() in 0.1.1B, whose bus does not reach it
ReadStatus ==
  /\ PortWindow
  /\ Finish("read_status", 8194,
            IF rev = RevA THEN NESReadA(M, 8194) ELSE read_status(M))
  /\ UNCHANGED <<frame, ops_left>>

\* the first write of an address pair: nes.write(0x2006, v) in 0.11A,
\* ppu.write_address(v) in 0.1.1B
WriteAddress(v) ==
  /\ PortWindow
  /\ Finish("write_address", 8198,
            Ret(IF rev = RevA THEN NESWriteA(M, 8198, v) ELSE write_address(M, v), v))
  /\ UNCHANGED <<frame, ops_left>>

\* run_frame is entered: update_loop of 0.11A calls it with or without a
\* cartridge, emulation_loop of 0.1.1B once one is loaded
RunFrameBegin ==
  /\ frame.pc = "idle"
  /\ nes.frame_count < MaxFrames
  /\ rev = RevB => sys_bus.rom_loaded
  /\ frame' = [Idle EXCEPT !.pc = "loop", !.before = frame.before + frame.consumed]
  /\ last' = Called("run_frame_begin", 0, 0, TRUE, "none", "none")
  /\ UNCHANGED <<rev, cpu, ppu, nes, sys_bus, ops_left>>

\* self.ppu.step(c) after the step that gave r
TickedA(r) == IF ~Ok(r.m) THEN r ELSE Ret(PPUStepA(r.m, r.val.cycles), r.val)

\* one pass of the loop of NES.run_frame, 0.11A: c = cpu.step() ;
\* cycles += c ; ppu.step(c)
PassA(m) == TickedA(StepA(m))

\* for _ in range(n): self.ppu.tick()
RECURSIVE TicksB(_, _)
TicksB(m, n) == IF n = 0 THEN m ELSE TicksB(tick(m), n - 1)

\* the three ticks after the step that gave r
TickedB(r) == IF ~Ok(r.m) THEN r ELSE Ret(TicksB(r.m, 3), r.val)

\* one pass of the loop of NES.run_frame, 0.1.1B: the step unless paused,
\* then three PPU ticks
PassB(m) ==
  TickedB(IF ~m.sys_bus.paused THEN StepB(m) ELSE Ret(m, Did(0, "paused", -1)))

\* the PPU clocks since power-on, read off the three counters of the PPU
Timer(p) == (p.frame * LinesPerFrame + p.scanline) * DotsPerLine + p.cycle

\* a pass of the loop gave r: the loop's own counters, the PPU clocks it
\* made and the cycles its step reported
Passed(r) ==
  /\ Stepped("pass", r)
  /\ frame' = IF ~Ok(r.m)
              THEN [frame EXCEPT !.pc = "raised"]
              ELSE [frame EXCEPT
                      !.cycles = IF rev = RevA THEN @ + r.val.cycles ELSE @,
                      !.ticks = @ + (Timer(r.m.ppu) - Timer(ppu)),
                      !.consumed = @ + r.val.cycles,
                      !.steps = @ + 1,
                      !.stalled = IF r.val.cycles = 0 THEN @ + 1 ELSE 0]

RunFrameIter ==
  /\ frame.pc = "loop"
  /\ LoopCondition
  /\ frame.stalled < MaxStalled
  /\ Passed(IF rev = RevA THEN PassA(M) ELSE PassB(M))
  /\ UNCHANGED ops_left

\* the loop is left: render_frame() and frame_count += 1 in 0.11A,
\* total_cycles -= target_cycles and frame_count += 1 in 0.1.1B
RunFrameEnd ==
  /\ frame.pc = "loop"
  /\ ~LoopCondition
  /\ LET m == IF rev = RevA
              THEN [render_frame(M) EXCEPT !.nes.frame_count = @ + 1]
              ELSE [M EXCEPT !.cpu.total_cycles = @ - TargetCyclesB,
                             !.nes.frame_count = @ + 1]
     IN  Commit(m)
  /\ frame' = [frame EXCEPT !.pc = "idle"]
  /\ last' = Called("run_frame", 0, 0, TRUE, "none", "none")
  /\ UNCHANGED ops_left

NextFrame ==
  \/ \E i \in 1 .. Len(FrameCartridges) : LoadCart(i)
  \/ TogglePause
  \/ ConsoleOpen
  \/ ConsoleExit
  \/ ReadStatus
  \/ \E v \in {63} : WriteAddress(v)
  \/ RunFrameBegin
  \/ RunFrameIter
  \/ RunFrameEnd

SpecFrame == InitFrame /\ [][NextFrame]_vars

-----------------------------------------------------------------------------
(* Properties of run_frame and of the PPU timer.                            *)

\* what the while condition of run_frame still waits for
Remaining ==
  IF rev = RevA THEN TargetCyclesA - frame.cycles
                ELSE TargetCyclesB - cpu.total_cycles

\* C1: every call to run_frame runs to completion, in each revision and for
\* any value of the shared flags: no pass of the loop raises, every pass
\* either brings the loop condition nearer to false or changes the CPU the
\* condition depends on, and leaving the loop increments frame_count.
C1_RunFrameCompletes ==
  [][/\ RunFrameIter => /\ frame'.pc = "loop"
                        /\ Remaining' < Remaining \/ cpu' # cpu
     /\ RunFrameEnd => nes'.frame_count = nes.frame_count + 1]_vars

\* C2: when run_frame returns, the PPU clocks made during the call are three
\* times the CPU cycles its steps consumed, in each revision.
C2_ThreeTicksPerCycle ==
  last.op = "run_frame" => frame.ticks = 3 * frame.consumed

\* C3: when run_frame of 0.11A returns, the CPU cycles consumed during the
\* call lie in 29780 .. 29782.
C3_CycleBudget ==
  (rev = RevA /\ last.op = "run_frame") => frame.consumed \in 29780 .. 29782

\* the place of the PPU in its frame, and the clock at which VBlank begins
DotIndex(p) == p.scanline * DotsPerLine + p.cycle
VBlankDot == VBlankLine * DotsPerLine + 1

\* the step from p to q took the PPU timer to scanline 241, cycle 1: 0.11A
\* sets the flag in the clock that arrives there, 0.1.1B in the clock that
\* leaves it
ReachedVBlank(r, p, q) ==
  LET a == DotIndex(p) + (IF r = RevA THEN 0 ELSE -1)
      b == DotIndex(q) + (IF r = RevA THEN 0 ELSE -1)
  IN  /\ Timer(p) # Timer(q)
      /\ IF Timer(q) - Timer(p) >= DotsPerLine * LinesPerFrame THEN TRUE
         ELSE IF a < b THEN a < VBlankDot /\ VBlankDot <= b
         ELSE a < VBlankDot \/ VBlankDot <= b

\* CPU.step of 0.11A does nothing while one of the two flags is set
Frozen == sys_bus.console_active \/ sys_bus.paused

\* the NMI sequence from the state before the step to the state after it:
\* PC and status (B clear) pushed, I set, PC loaded from 0xFFFA, 7 cycles
NmiSequence ==
  /\ last'.ok /\ last'.kind = "nmi" /\ last'.val = 7
  /\ cpu'.sp = (cpu.sp - 3) % 256
  /\ Get(nes'.wram, 256 + cpu.sp) = (cpu.pc \div 256) % 256
  /\ Get(nes'.wram, 256 + ((cpu.sp - 1) % 256)) = cpu.pc % 256
  /\ Get(nes'.wram, 256 + ((cpu.sp - 2) % 256)) = SetBit(cpu.status, 4, 0)
  /\ cpu'.status = SetBit(cpu.status, 2, 1)
  /\ cpu'.pc = Get(nes.prg_rom.at, 32762) + 256 * Get(nes.prg_rom.at, 32763)

\* a pass of the run_frame loop of 0.11A
PassOfA == RunFrameIter /\ rev = RevA

\* C8, as the code has it (0.11A): a pass that takes the timer to scanline
\* 241 cycle 1 leaves STATUS bit 7 set and, if CTRL bit 7 is set, an NMI
\* pending, else requests none; while an NMI is pending no instruction is
\* fetched, and the first step taken with console_active and paused both
\* clear performs the NMI sequence and clears nmi_pending.
C8_VBlankNmi ==
  [][PassOfA =>
       /\ ReachedVBlank(RevA, ppu, ppu') =>
            /\ Bit(ppu'.status, 7) = 1
            /\ Bit(ppu'.ctrl, 7) = 1 => cpu'.nmi_pending
            /\ Bit(ppu'.ctrl, 7) = 0 => (cpu'.nmi_pending => cpu.nmi_pending)
       /\ cpu.nmi_pending => last'.kind \in {"nmi", "frozen"}
       /\ (cpu.nmi_pending /\ ~Frozen) =>
            /\ NmiSequence
            /\ cpu'.nmi_pending => ReachedVBlank(RevA, ppu, ppu')]_vars

\* the state after the NMI sequence of the VBlank of the first frame
C8_Witness ==
  /\ rev = RevA
  /\ last.op = "pass" /\ last.kind = "nmi"
  /\ Bit(ppu.status, 7) = 1 /\ Bit(ppu.ctrl, 7) = 1
  /\ ~cpu.nmi_pending
  /\ cpu.pc = 32784

\* C8, as the claim has it (0.11A): whenever an NMI is pending, the next
\* step of the CPU performs the NMI sequence.
C8_NextStepIsNmi ==
  [][(PassOfA /\ cpu.nmi_pending) => NmiSequence]_vars

\* PPU register 2 read through the port of the revision
StatusRead(m) == IF m.rev = RevA THEN read_reg(m, 8194) ELSE read_status(m)

WriteToggle(m) == IF m.rev = RevA THEN m.ppu.write_toggle ELSE m.ppu.w

-----------------------------------------------------------------------------
(* The PPU ports and the controller port, driven through the bus of 0.11A   *)
(* and of 1.0, with the keys of the GUI that set the controller mask.       *)

\* FCEUXGUI.on_key_press (0.11A): self.nes.controller1 |= 1 << bit
on_key_press(m, bit) == [m EXCEPT !.nes.controller1 = SetBit(@, bit, 1)]

\* FCEUXGUI.on_key_release (0.11A): self.nes.controller1 &= ~(1 << bit)
on_key_release(m, bit) == [m EXCEPT !.nes.controller1 = SetBit(@, bit, 0)]

\* FCEUX_Core.set_controller_state
set_controller_state(m, controller_num, buttons) ==
  IF controller_num = 1 THEN [m EXCEPT !.nes.controller1 = buttons]
  ELSE [m EXCEPT !.nes.controller2 = buttons]

\* port operations in one behaviour
MaxPortOps == 3

\* the ports written and read, the values written, the keys and masks
PortWriteAddrs == {8192, 8198, 8199, 16406}
PortReadAddrs == {8199, 16406}
PortVals == {0, 1, 63}
Keys == {0, 7}
Masks == {1, 165}

InitPorts ==
  /\ \E r \in {RevA, RevC} : Objects(r)
  /\ frame = Idle
  /\ last = Called("none", 0, 0, TRUE, "none", "none")
  /\ ops_left = MaxPortOps

\* nes.write(addr, val) / core.cpu_write(addr, val) on a port
PortWrite(addr, val) ==
  /\ ops_left > 0
  /\ Finish("write", addr, Ret(BusWrite(M, addr, val), val))
  /\ ops_left' = ops_left - 1
  /\ UNCHANGED frame

\* nes.read(addr) / core.cpu_read(addr) on a port
PortRead(addr) ==
  /\ ops_left > 0
  /\ Finish("read", addr, BusRead(M, addr))
  /\ ops_left' = ops_left - 1
  /\ UNCHANGED frame

\* a key of controller 1 goes down (0.11A)
KeyPress(bit) ==
  /\ ops_left > 0
  /\ rev = RevA
  /\ Finish("key_press", bit, Ret(on_key_press(M, bit), 0))
  /\ ops_left' = ops_left - 1
  /\ UNCHANGED frame

\* a key of controller 1 goes up (0.11A)
KeyRelease(bit) ==
  /\ ops_left > 0
  /\ rev = RevA
  /\ Finish("key_release", bit, Ret(on_key_release(M, bit), 0))
  /\ ops_left' = ops_left - 1
  /\ UNCHANGED frame

\* core.set_controller_state(1, buttons) (1.0)
SetControllerState(buttons) ==
  /\ ops_left > 0
  /\ rev = RevC
  /\ Finish("set_controller_state", buttons,
            Ret(set_controller_state(M, 1, buttons), 0))
  /\ ops_left' = ops_left - 1
  /\ UNCHANGED frame

NextPorts ==
  \/ \E a \in PortWriteAddrs, v \in PortVals : PortWrite(a, v)
  \/ \E a \in PortReadAddrs : PortRead(a)
  \/ \E k \in Keys : KeyPress(k)
  \/ \E k \in Keys : KeyRelease(k)
  \/ \E b \in Masks : SetControllerState(b)

SpecPorts == InitPorts /\ [][NextPorts]_vars

-----------------------------------------------------------------------------
(* Properties of the ports.                                                 *)

\* the values CTRL, the two address bytes and the data byte take
CtrlVals == {0, 4}
FirstVals == {1, 62, 63, 255}
SecondVals == {0, 224, 255}

\* the machine after CTRL = c and the two writes of 0x2006
Addressed(m, c, first, second) ==
  BusWrite(BusWrite(BusWrite(m, 8192, c), 8198, first), 8198, second)

\* ((first & 0x3F) << 8) | second
AddressOf(first, second) == (first % 64) * 256 + second

\* what the first read of 0x2007 after such a pair does (0.11A)
DataRead(m, c, v) ==
  LET r == BusRead(m, 8199)
  IN  /\ Ok(r.m)
      /\ m.ppu.vram_addr = v
      /\ r.m.ppu.vram_addr = (v + (IF c = 4 THEN 32 ELSE 1)) % 16384
      /\ v < 16128 => /\ r.val = m.ppu.read_buffer
                      /\ r.m.ppu.read_buffer = Get(m.ppu.vram, v)
      /\ v >= 16128 => r.val = Get(m.ppu.palette_ram, v % 32)

\* the second read of 0x2007 returns the byte stored at the first address
SecondRead(m, v) ==
  BusRead(BusRead(m, 8199).m, 8199).val = Get(m.ppu.vram, v)

\* C11, as the code has it (0.11A): two writes of 0x2006 made with the
\* toggle clear set v = ((first & 0x3F) << 8) | second; a read of 0x2007
\* advances v by 1 or 32 as CTRL bit 2 says and, for v < 0x3F00, returns the
\* read buffer and refills it from v; the second read returns the byte
\* stored at the first v when its own address is below 0x3F00 too; for
\* v >= 0x3F00 the palette byte is returned at once.
C11_AddressAndData ==
  (rev = RevA /\ ppu.write_toggle = 0) =>
    \A c \in CtrlVals, first \in FirstVals, second \in SecondVals :
      /\ DataRead(Addressed(M, c, first, second), c, AddressOf(first, second))
      /\ (/\ AddressOf(first, second) < 16128
          /\ (AddressOf(first, second) + (IF c = 4 THEN 32 ELSE 1)) % 16384 < 16128)
           => SecondRead(Addressed(M, c, first, second), AddressOf(first, second))

\* the state after the address pair 0x01, 0x00 and one read of 0x2007
C11_Witness ==
  /\ rev = RevA
  /\ last.op = "read" /\ last.arg = 8199 /\ last.ok
  /\ ppu.vram_addr = 257
  /\ ppu.write_toggle = 0

\* C11, as the claim has it (0.11A): for every v < 0x3F00 the second read
\* of 0x2007 returns the byte stored at the first v.
C11_SecondReadReturnsStored ==
  (rev = RevA /\ ppu.write_toggle = 0) =>
    \A c \in CtrlVals, first \in FirstVals, second \in SecondVals :
      /\ DataRead(Addressed(M, c, first, second), c, AddressOf(first, second))
      /\ AddressOf(first, second) < 16128
           => SecondRead(Addressed(M, c, first, second), AddressOf(first, second))

\* C12: while the strobe latch is 1 (0.11A), a read of 0x4016 returns bit 0
\* of the live controller-1 mask and shifts nothing.
C12_StrobeHighReadsLive ==
  (rev = RevA /\ nes.controller_strobe = 1) =>
    BusRead(M, 16406) = Ret(M, Bit(nes.controller1, 0))

\* n successive reads of addr: the values returned
RECURSIVE Reads(_, _, _)
Reads(m, addr, n) ==
  IF n = 0 THEN << >>
  ELSE <<BusRead(m, addr).val>> \o Reads(BusRead(m, addr).m, addr, n - 1)

\* the strobe raised and dropped: writes of 1 and of 0 to 0x4016
Strobed(m) == BusWrite(BusWrite(m, 16406, 1), 16406, 0)

\* the live mask changed after the falling edge
Repressed(m) ==
  IF m.rev = RevA THEN on_key_release(on_key_press(m, 7), 0)
  ELSE set_controller_state(m, 1, 255 - m.nes.controller1)

\* C13: after the strobe falls, eight reads of 0x4016 return bits 0 .. 7 of
\* the controller-1 mask as it was at the falling edge, whatever the mask
\* becomes afterwards, and every further read returns 1 (0.11A and 1.0).
C13_SerialReadout ==
  rev \in {RevA, RevC} =>
    /\ Reads(Strobed(M), 16406, 10) =
         [i \in 1 .. 10 |-> IF i <= 8 THEN Bit(nes.controller1, i - 1) ELSE 1]
    /\ Reads(Repressed(Strobed(M)), 16406, 10) = Reads(Strobed(M), 16406, 10)

-----------------------------------------------------------------------------
(* The CPU of 0.11A and of 0.1.1B, one instruction at a time, started with  *)
(* a program in RAM and registers drawn from the values below; CPU.push and *)
(* CPU.pop called on their own.                                             *)

\* CPU.push
PushByte(m, val) ==
  IF ~Ok(WriteSeq(m, push(m.cpu.sp, <<val>>)))
  THEN WriteSeq(m, push(m.cpu.sp, <<val>>))
  ELSE [WriteSeq(m, push(m.cpu.sp, <<val>>)) EXCEPT !.cpu.sp = (@ - 1) % 256]

\* CPU.pop
PopByte(m) ==
  WordOf(ReadSeq([m EXCEPT !.cpu.sp = (@ + 1) % 256], pop(m.cpu.sp, 1)))

\* CPU operations in one behaviour
MaxCpuOps == 2

\* the objects of revision r as their constructors leave them
Machine(r) ==
  [rev |-> r, cpu |-> CPU_Init,
   ppu |-> IF r = RevA THEN PPU_A ELSE PPU_B,
   nes |-> IF r = RevA THEN NES_A ELSE NES_B,
   sys_bus |-> SystemBus_Init, err |-> "none"]

\* bytes stored from address at on
RECURSIVE Poked(_, _, _)
Poked(map, at, bytes) ==
  IF bytes = << >> THEN map
  ELSE Poked(Put(map, at, Head(bytes)), at + 1, Tail(bytes))

\* RAM before the program is placed: bytes a pointer can be told by, and
\* the return address 0xFFFF on the stack above SP = 0xFD
Background ==
  Poked(Poked(Poked(Poked(EmptyMap, 0, <<18>>), 128, <<120, 154>>), 255, <<52, 86>>),
        510, <<255, 255>>)

\* register files: a, x, y, sp, status
RegFiles ==
  { [a |-> 0,   x |-> 1,   y |-> 1,   sp |-> 253, status |-> 36],
    [a |-> 255, x |-> 255, y |-> 255, sp |-> 0,   status |-> 231],
    [a |-> 128, x |-> 0,   y |-> 255, sp |-> 255, status |-> 37] }

\* the operand values of ADC and of LDA
AluVals == {0, 1, 127, 128, 255}

\* a program of three bytes at pc with a register file
Case(pc, code, regs) == [pc |-> pc, code |-> code, regs |-> regs]

\* every opcode with two operand pairs and every register file; ADC #m over
\* the operand values and both carries; JMP (ind) through pointers that end
\* and do not end a page; BEQ +4 at 0x00FE with Z set and clear; LDA #b;
\* every opcode at 0xFFFE with its operand at 0xFFFF, and at 0xFFFF;
\* STA $2003 ; STA $4014, which sets OAMADDR and the DMA page to A
Cases ==
  { Case(512, <<op, b, 16>>, f) : op \in 0 .. 255, b \in {4, 255}, f \in RegFiles }
  \cup { Case(512, <<105, v, 0>>, [a |-> A, x |-> 0, y |-> 0, sp |-> 253, status |-> 36 + c]) :
           v \in AluVals, A \in AluVals, c \in {0, 1} }
  \cup { Case(512, <<108, lo, 16>>, f) : lo \in {0, 128, 255}, f \in RegFiles }
  \cup { Case(254, <<240, 4, 234>>, [a |-> 0, x |-> 0, y |-> 0, sp |-> 253, status |-> s]) :
           s \in {36, 38} }
  \cup { Case(512, <<169, v, 2>>, f) : v \in AluVals \cup {66}, f \in RegFiles }
  \cup { Case(65534, <<op, b>>, f) : op \in 0 .. 255, b \in {4, 255}, f \in RegFiles }
  \cup { Case(65535, <<op>>, f) : op \in 0 .. 255, f \in RegFiles }
  \cup { Case(512, <<141, 3, 32, 141, 20, 64>>, f) : f \in RegFiles }

\* the cartridge of a case: two banks with the reset vector 0x8000, and the
\* program of the case when it lies in the cartridge window
CartOf(c) ==
  IF c.pc < 32768 THEN CartTwoBanks
  ELSE INesFile(26, 2, 0, 1, 0, 16 + 32768,
                Join(Code(c.pc - 32768, c.code),
                     Join(Code(0, <<202, 154, 173, 2, 32, 76, 0, 128>>),
                          Code(32764, <<0, 128>>))))

\* the machine of a case: a cartridge loaded, the program in RAM unless the
\* cartridge holds it, the registers set
Prepared(m, c) ==
  [m EXCEPT !.nes.wram = IF c.pc < 32768 THEN Poked(Background, c.pc, c.code)
                         ELSE Background,
            !.cpu.pc = c.pc,
            !.cpu.a = c.regs.a, !.cpu.x = c.regs.x, !.cpu.y = c.regs.y,
            !.cpu.sp = c.regs.sp, !.cpu.status = c.regs.status]

Started(m) ==
  /\ rev = m.rev
  /\ cpu = m.cpu
  /\ ppu = m.ppu
  /\ nes = m.nes
  /\ sys_bus = m.sys_bus

InitCpu ==
  /\ \E r \in {RevA, RevB}, c \in Cases :
       Started(Prepared(load_rom(Machine(r), CartOf(c)).m, c))
  /\ frame = Idle
  /\ last = Called("none", 0, 0, TRUE, "none", "none")
  /\ ops_left = MaxCpuOps

\* the bytes CPU.push is called with
PushVals == {128, 255}

\* cpu.push(val)
CpuPush(val) ==
  /\ CanCall
  /\ Finish("push", val, Ret(PushByte(M, val), val))
  /\ ops_left' = ops_left - 1
  /\ UNCHANGED frame

\* cpu.pop()
CpuPop ==
  /\ CanCall
  /\ Finish("pop", 0, PopByte(M))
  /\ ops_left' = ops_left - 1
  /\ UNCHANGED frame

NextCpu ==
  \/ CpuStep
  \/ \E v \in PushVals : CpuPush(v)
  \/ CpuPop

SpecCpu == InitCpu /\ [][NextCpu]_vars

-----------------------------------------------------------------------------
(* Properties of the CPU.                                                   *)

\* C14: for any byte b and any SP (SP = 0x00 included), push(b) stores b at
\* 0x0100 + SP and nowhere else and lowers SP by one modulo 256, and the
\* pop() that follows returns b and leaves SP as it was before the push,
\* in both CPU revisions.
C14_PushPopRoundTrip ==
  \A b \in PushVals \cup {0} :
    /\ PushByte(M, b) = [M EXCEPT !.nes.wram = Put(@, 256 + cpu.sp, b),
                                  !.cpu.sp = (cpu.sp - 1) % 256]
    /\ Ok(PopByte(PushByte(M, b)).m)
    /\ PopByte(PushByte(M, b)).val = b
    /\ PopByte(PushByte(M, b)).m.cpu.sp = cpu.sp
    /\ PopByte(PushByte(M, b)).m.nes = PushByte(M, b).nes

\* the state after push(0x80) from SP = 0x00 and the pop that follows
C14_Witness ==
  /\ last.op = "pop" /\ last.val = 128 /\ last.ok
  /\ cpu.sp = 0
  /\ Get(nes.wram, 256) = 128

\* the next step of the CPU fetches the given opcode as an instruction
Fetches(opcode) ==
  /\ rev # RevC
  /\ ~cpu.nmi_pending
  /\ ~(cpu.irq_pending /\ ~get_flag(M, 4))
  /\ ~(rev = RevA /\ (sys_bus.console_active \/ sys_bus.paused))
  /\ Ok(Read(M, cpu.pc).m)
  /\ Read(M, cpu.pc).val = opcode

\* the byte k places after the opcode
Operand(k) == Read(M, cpu.pc + k).val

\* 1 for TRUE, 0 for FALSE
Truth(b) == IF b THEN 1 ELSE 0

\* the sum ADC #m forms
AdcSum == cpu.a + Operand(1) + Bit(cpu.status, 0)

\* C15: ADC #m, in both CPU revisions: A' = (A + M + C) mod 256, C' = 1 iff
\* A + M + C > 255, V' = 1 iff A and M agree in sign and the result's sign
\* differs, Z' = 1 iff A' = 0, N' = bit 7 of A'; the other flags stay.
C15_Adc ==
  [][(CpuStep /\ Fetches(105)) =>
       /\ last'.ok
       /\ cpu'.a = AdcSum % 256
       /\ Bit(cpu'.status, 0) = Truth(AdcSum > 255)
       /\ Bit(cpu'.status, 6) = Truth(/\ Bit(cpu.a, 7) = Bit(Operand(1), 7)
                                      /\ Bit(AdcSum, 7) # Bit(cpu.a, 7))
       /\ Bit(cpu'.status, 1) = Truth(AdcSum % 256 = 0)
       /\ Bit(cpu'.status, 7) = Bit(AdcSum, 7)
       /\ Field(cpu'.status, 2, 4) = Field(cpu.status, 2, 4)]_vars

\* the state after 0x7F + 0x01 with carry clear: A = 0x80, V = 1, N = 1,
\* Z = 0, C = 0
C15_Witness ==
  /\ last.op = "step" /\ last.arg = 105 /\ last.ok
  /\ cpu.a = 128
  /\ Bit(cpu.status, 6) = 1 /\ Bit(cpu.status, 7) = 1
  /\ Bit(cpu.status, 1) = 0 /\ Bit(cpu.status, 0) = 0

\* the pointer of JMP (ind)
Pointer == Operand(1) + 256 * Operand(2)

\* C16: JMP (ptr) loads the low byte of PC from ptr and the high byte from
\* ptr + 1, or from the start of the page of ptr when ptr ends in 0xFF, in
\* both CPU revisions.
C16_JmpIndirect ==
  [][(CpuStep /\ Fetches(108)) =>
       /\ last'.ok
       /\ cpu'.pc = Read(M, Pointer).val
                    + 256 * Read(M, IF Pointer % 256 = 255 THEN Pointer - 255
                                    ELSE Pointer + 1).val]_vars

\* the state after JMP ($10FF): low byte 0x34 from $10FF, high byte 0x12
\* from $1000
C16_Witness ==
  /\ last.op = "step" /\ last.arg = 108 /\ last.ok
  /\ cpu.pc = 4660

\* C17: BEQ +4 fetched at PC = $00FE with Z = 1 costs 4 cycles and leaves
\* PC = $0104.
C17_BranchPageCross ==
  [][(/\ CpuStep /\ Fetches(240)
      /\ cpu.pc = 254 /\ Operand(1) = 4 /\ Bit(cpu.status, 1) = 1) =>
       /\ last'.ok
       /\ last'.val = 4
       /\ cpu'.pc = 260]_vars

\* C18: LDA #b, in both CPU revisions: A = b, Z = (b = 0), N = bit 7 of b,
\* 2 cycles, PC advanced by 2.
C18_LdaImmediate ==
  [][(CpuStep /\ Fetches(169)) =>
       /\ last'.ok
       /\ cpu'.a = Operand(1)
       /\ Bit(cpu'.status, 1) = Truth(Operand(1) = 0)
       /\ Bit(cpu'.status, 7) = Bit(Operand(1), 7)
       /\ last'.val = 2
       /\ cpu'.pc = cpu.pc + 2]_vars

\* the bytes of a sparse map
Stored(map) == { map[i] : i \in DOMAIN map }

-----------------------------------------------------------------------------
(* The 16 KiB cartridge in the 32 KiB window (checked under Spec).          *)

\* the PRG an image declares, as the bytes that follow its header
PrgOf(image) == Slice(image, 16, 16 + Get(image.at, 4) * 16384)

\* a whole iNES file with exactly one 16 KiB PRG bank
OneBank(image) == ValidImage(image) /\ PrgOf(image).len = 16384

\* the offsets into one 16 KiB bank
PrgOffsets == 0 .. 16383

\* C19: after a 16 KiB PRG image is loaded (0.11A, 0.1.1B), read(0x8000+k) =
\* read(0xC000+k) = PRG[k], and with 0x00, 0x80 at offsets 0x3FFC/0x3FFD the
\* reset that ends the load leaves PC = 0x8000 and cycles = 7.
C19_MirroredBank ==
  (/\ rev # RevC
   /\ last.op = "load_rom"
   /\ OneBank(Cartridges[last.arg])) =>
     /\ last.ok
     /\ \A k \in PrgOffsets :
          /\ Read(M, 32768 + k) = Ret(M, Get(PrgOf(Cartridges[last.arg]).at, k))
          /\ Read(M, 49152 + k) = Ret(M, Get(PrgOf(Cartridges[last.arg]).at, k))
     /\ (/\ Get(PrgOf(Cartridges[last.arg]).at, 16380) = 0
         /\ Get(PrgOf(Cartridges[last.arg]).at, 16381) = 128) =>
           /\ cpu.pc = 32768
           /\ cpu.cycles = 7

\* the one-bank image is loaded in 0.11A: the opcode at the start of the
\* bank is read in the upper half of the window
C19_Witness ==
  /\ rev = RevA
  /\ last.op = "load_rom" /\ last.arg = 1 /\ last.ok
  /\ Read(M, 49152).val = 2
  /\ cpu.pc = 32768 /\ cpu.cycles = 7

-----------------------------------------------------------------------------
(* The program counter and the status register.                             *)

\* C21: after every CPU step PC is in [0, 65535], also when the instruction
\* or its operand lies at 0xFFFE/0xFFFF or the popped return address is
\* 0xFFFF.
C21_PcSixteenBits ==
  (last.op = "step" /\ last.ok) => cpu.pc \in 0 .. 65535

\* bit 0x20 set and bit 0x10 clear
LiveStatus(status) == Bit(status, 5) = 1 /\ Bit(status, 4) = 0

\* the byte last pushed on the stack of m
TopOfStack(m) == Get(m.nes.wram, 256 + ((m.cpu.sp + 1) % 256))

\* C22: in every reachable CPU state the live status has bit 0x20 set and
\* bit 0x10 clear (after PLP and RTI of arbitrary bytes, and after NMI, IRQ
\* and BRK entry); the copies pushed by PHP and BRK have bit 0x10 set, the
\* copies pushed by NMI and IRQ have it clear.
C22_StatusBits ==
  /\ LiveStatus(cpu.status)
  /\ (last.op = "step" /\ last.ok /\ last.arg \in {0, 8}) =>
       Bit(TopOfStack(M), 4) = 1 /\ Bit(TopOfStack(M), 5) = 1
  /\ \A r \in {nmi(M), irq(M)} :
       (Ok(r) /\ r # M) =>
         /\ LiveStatus(r.cpu.status)
         /\ r.cpu.sp = (cpu.sp - 3) % 256
         /\ Bit(TopOfStack(r), 4) = 0
         /\ Bit(TopOfStack(r), 5) = 1

\* PLP has pulled 0xFF: the live status is 0xEF
C22_Witness ==
  /\ last.op = "step" /\ last.arg = 40 /\ last.ok
  /\ cpu.status = 239

-----------------------------------------------------------------------------
(* The cycles of an instruction, revision 0.11A.                            *)

\* the high byte of an address
PageOf(addr) == (addr \div 256) % 256

\* the base address an indexed mode adds its register to, and the register
IndexBase(mode) ==
  IF mode = "indy"
  THEN Read(M, Operand(1)).val + 256 * Read(M, (Operand(1) + 1) % 256).val
  ELSE Operand(1) + 256 * Operand(2)

IndexReg(mode) == IF mode = "absx" THEN cpu.x ELSE cpu.y

\* the target of a branch: the address after its operand plus the offset
\* sign-extended from 8 bits
BranchTarget ==
  (cpu.pc + 2 + (IF Operand(1) >= 128 THEN Operand(1) - 256 ELSE Operand(1))) % 65536

\* the adjustment documented for opcode o in the current state; a branch
\* crosses a page when its target lies on another page than the branch
Adjustment(o) ==
  LET mode == op_table[o].mode
  IN  IF mode \in {"absx", "absy", "indy"}
      THEN Truth(PageOf((IndexBase(mode) + IndexReg(mode)) % 65536) # PageOf(IndexBase(mode)))
      ELSE IF mode = "rel" /\ BranchCond(M, op_table[o].op)
      THEN 1 + Truth(PageOf(BranchTarget) # PageOf(cpu.pc))
      ELSE 0

\* C23: for every official instruction of 0.11A the cycles charged by step
\* are the table base, +1 for an absolute,X / absolute,Y / (indirect),Y
\* address on another page than its base, +1 for a taken branch and +1 more
\* when its target is on a different page; a branch not taken costs 2 and
\* advances PC by 2; nothing is carried over from the instruction before.
C23_CyclesCharged ==
  [][(/\ CpuStep /\ rev = RevA
      /\ \E o \in Official : Fetches(o)
      /\ last'.ok) =>
       LET o == Read(M, cpu.pc).val
       IN  /\ last'.val = cycles_table[o] + Adjustment(o)
           /\ (op_table[o].mode = "rel" /\ ~BranchCond(M, op_table[o].op)) =>
                (last'.val = 2 /\ cpu'.pc = (cpu.pc + 2) % 65536)]_vars

-----------------------------------------------------------------------------
(* OAM DMA.                                                                 *)

\* C24: a write of val to 0x4014 copies 256 bytes relative to the OAM
\* pointer: afterwards OAM[(OAMADDR + i) & 0xFF] = read((val << 8) + i) for
\* every i in 0..255, for any OAMADDR.
C24_OamDma ==
  [][(/\ CpuStep /\ Fetches(141)
      /\ Operand(1) = 20 /\ Operand(2) = 64
      /\ last'.ok) =>
       \A i \in 0 .. 255 :
         Get(ppu'.oam, (ppu.oam_addr + i) % 256) = Read(M, cpu.a * 256 + i).val]_vars

\* the CPU cycles a pass of the run_frame loop counts toward the frame
\* budget: the local cycles of 0.11A, cpu.total_cycles of 0.1.1B
Counted(r) ==
  IF rev = RevA THEN r.val.cycles ELSE r.m.cpu.total_cycles - cpu.total_cycles

\* C25: a pass of the run_frame loop whose instruction writes 0x4014 counts
\* the cycles of the instruction and at least 512 more toward the frame
\* budget, and ticks the PPU three times for each of them.
C25_DmaStall ==
  \A r \in {IF rev = RevA THEN PassA(M) ELSE PassB(M)} :
    (/\ Fetches(141) /\ Operand(1) = 20 /\ Operand(2) = 64
     /\ Ok(r.m)) =>
       /\ Counted(r) >= cycles_table[141] + 512
       /\ Timer(r.m.ppu) - Timer(ppu) = 3 * Counted(r)

-----------------------------------------------------------------------------
(* PPU memory and timing (palette and framebuffer under Spec, the timer     *)
(* under SpecFrame).                                                        *)

\* 0.11A: the machine once the CPU has read 0x2002 and written the two
\* bytes of addr to 0x2006
VramAddressed(m, addr) ==
  BusWrite(BusWrite(BusRead(m, 8194).m, 8198, addr \div 256), 8198, addr % 256)

\* a write of val to PPU address addr: through 0x2007 in 0.11A, PPU.write
\* in 0.1.1B
PpuMemWrite(m, addr, val) ==
  IF m.rev = RevA THEN BusWrite(VramAddressed(m, addr), 8199, val)
  ELSE PPUWriteB(m, addr, val)

\* the byte a palette read of addr returns: through 0x2007 in 0.11A,
\* PPU.read in 0.1.1B
PaletteRead(m, addr) ==
  IF m.rev = RevA THEN BusRead(VramAddressed(m, addr), 8199).val
  ELSE PPUReadB(m, addr).val

PaletteAddrs == 16128 .. 16159

\* a and b are one cell: the same address, or 0x3F10+4k and 0x3F00+4k
SameCell(a, b) ==
  \/ a = b
  \/ a % 4 = 0 /\ b % 4 = 0 /\ (a - b = 16 \/ b - a = 16)

\* C26: in each PPU revision a palette write at 0x3F10+4k is returned by a
\* palette read at 0x3F00+4k and vice versa, and all other addresses of
\* 0x3F00-0x3F1F are distinct cells.
C26_PaletteAliases ==
  rev # RevC =>
    \A a \in PaletteAddrs, b \in PaletteAddrs, v \in {1, 63} :
      PaletteRead(PpuMemWrite(M, a, v), b) =
        IF SameCell(a, b) THEN v ELSE PaletteRead(M, b)

\* the framebuffer the presenter reads: ppu.framebuffer in 0.11A (blit,
\* line 1183), ppu.front_buffer in 0.1.1B (lines 908-910)
Exposed == IF rev = RevA THEN ppu.framebuffer ELSE ppu.front_buffer

\* the values a buffer kept as its filling rule is known to hold
Entries(buf) ==
  CASE buf.kind = "zero" -> {0}
    [] buf.kind = "static" -> 0 .. 63
    [] buf.kind = "pattern" -> { (buf.base + k) % 64 : k \in 0 .. 3 }
    [] buf.kind = "pixel" -> {buf.rgb}

\* C27: in every reachable state each entry of the framebuffer exposed to
\* the presenter is a palette index in [0, 63], in each PPU revision.
C27_IndexedFramebuffer == Entries(Exposed) \subseteq 0 .. 63

\* the machine n PPU clocks on: the loop body of PPU.step in 0.11A,
\* PPU.tick in 0.1.1B
Ticked(m, n) == IF m.rev = RevA THEN TicksA(m, n) ELSE TicksB(m, n)


\* the timer q follows the timer p by one clock
NextDot(p, q) ==
  /\ q.cycle = IF p.cycle = 340 THEN 0 ELSE p.cycle + 1
  /\ q.scanline = IF p.cycle # 340 THEN p.scanline
                  ELSE IF p.scanline = 261 THEN 0 ELSE p.scanline + 1
  /\ q.frame = IF p.cycle = 340 /\ p.scanline = 261 THEN p.frame + 1 ELSE p.frame
  /\ Timer(q) = Timer(p) + 1

\* the next n clocks of m, of which q is the first, each follow the timer
RECURSIVE Follows(_, _, _)
Follows(m, q, n) ==
  \/ n = 0
  \/ /\ Ok(q)
     /\ NextDot(m.ppu, q.ppu)
     /\ Follows(q, Ticked(q, 1), n - 1)


\* C28: after any number of PPU ticks, in each PPU revision, scanline is in
\* [0, 261] and cycle in [0, 340]; cycle wraps to 0 exactly when it would
\* reach 341 and scanline goes up then, scanline wraps 261 -> 0 exactly then,
\* and the frame counter goes up once per wrap, once every 341 * 262 ticks.
\* Each state is followed for 21 clocks, the longest pass of run_frame.
C28_PpuTimer ==
  /\ ppu.scanline \in 0 .. 261
  /\ ppu.cycle \in 0 .. 340
  /\ Follows(M, Ticked(M, 1), 21)

\* the timer has gone round once: the frame counter is 1 on the first line
C28_Witness ==
  /\ ppu.frame = 1
  /\ ppu.scanline = 0

\* C29: at scanline 261 cycle 1 the PPU clears VBlank, sprite-0 hit and
\* overflow (STATUS bits 7, 6, 5), in each PPU revision: once the timer has
\* passed that dot of the line the three flags are clear.
C29_PreRenderClear ==
  (ppu.scanline = 261 /\ ppu.cycle >= 1) =>
    /\ Bit(ppu.status, 7) = 0
    /\ Bit(ppu.status, 6) = 0
    /\ Bit(ppu.status, 5) = 0

-----------------------------------------------------------------------------
(* The cycle budget over several frames.                                    *)

\* the frame budget of run_frame
Budget == IF rev = RevA THEN TargetCyclesA ELSE TargetCyclesB

\* the largest cost of a single step: the largest entry of the cycle table
\* and the extra cycle of a page crossing
LargestStep ==
  1 + CHOOSE c \in { cycles_table[o] : o \in Official } :
        \A o \in Official : cycles_table[o] <= c

\* C30: cycles consumed beyond the budget in one run_frame call are carried
\* into the next: after N consecutive calls the CPU cycles consumed are at
\* least N x budget and less than N x budget plus the largest single-step
\* cost, in each revision.
C30_BudgetCarried ==
  last.op = "run_frame" =>
    /\ frame.before + frame.consumed >= nes.frame_count * Budget
    /\ frame.before + frame.consumed < nes.frame_count * Budget + LargestStep

-----------------------------------------------------------------------------
(* The PPU of revision 0.1.1B on its own: its memory and its sprites.        *)

\* the number of PPU calls in one behaviour
MaxPpuOps == 3

\* PPU.write_mask
write_mask(m, val) == IF ~Ok(m) THEN m ELSE [m EXCEPT !.ppu.mask = val]

\* 8 KiB of CHR after two PRG banks: every row of plane 0 of tile 1 is 0xFF
SolidTile == Code(32768 + 16, <<255, 255, 255, 255, 255, 255, 255, 255>>)

\* two PRG banks and one CHR bank, the mirroring bit as given
CartChrRom(flags6) ==
  INesFile(26, 2, 1, flags6, 0, 16 + 32768 + 8192,
           Join(Code(0, <<76, 0, 128>>), Join(Code(32764, <<0, 128>>), SolidTile)))

\* two PRG banks and no CHR bank
CartChrRam ==
  INesFile(26, 2, 0, 0, 0, 16 + 32768,
           Join(Code(0, <<76, 0, 128>>), Code(32764, <<0, 128>>)))

PpuCartridges == <<CartChrRom(0), CartChrRom(1), CartChrRam>>

\* the 256 bytes of OAM that hold the given sprites <<y, tile, attr, x>> in
\* entry order, the entries after them parked below the picture (y = 255)
OamTable(sprites) ==
  Sparse([k \in 0 .. 255 |->
            IF k \div 4 < Len(sprites) THEN sprites[(k \div 4) + 1][(k % 4) + 1]
            ELSE IF k % 4 = 0 THEN 255 ELSE 0])

\* one opaque sprite on lines 101-108 ; nine opaque sprites in one column on
\* those lines ; nine transparent sprites side by side on those lines ; the
\* OAM of PPU.__init__
OamTables ==
  << OamTable(<< <<100, 1, 0, 16>> >>),
     OamTable([i \in 1 .. 9 |-> <<100, 0, 0, 16>>]),
     OamTable([i \in 1 .. 9 |-> <<100, 0, 0, 16 + 8 * i>>]),
     EmptyMap >>

\* the timer at the dot of pixel 16 of a line
AtPixel16(line) == [scanline |-> line, cycle |-> 17]

\* the machine with a cartridge loaded, OAM filled by DMA, PPUCTRL written
\* and the timer at dot
PpuCase(cart, oam, ctrl, dot) ==
  LET m == write_control(load_rom(Machine(RevB), cart).m, ctrl)
  IN  [m EXCEPT !.ppu.oam = oam, !.ppu.scanline = dot.scanline,
                !.ppu.cycle = dot.cycle]

InitPpu ==
  /\ \E i \in 1 .. Len(PpuCartridges), j \in 1 .. Len(OamTables),
        c \in {0, 32}, line \in {50, 101} :
       LET m == PpuCase(PpuCartridges[i], OamTables[j], c, AtPixel16(line))
       IN  /\ rev = RevB
           /\ cpu = m.cpu
           /\ ppu = m.ppu
           /\ nes = m.nes
           /\ sys_bus = m.sys_bus
  /\ frame = Idle
  /\ last = Called("none", 0, 0, TRUE, "none", "none")
  /\ ops_left = MaxPpuOps

\* PPU addresses and bytes the environment reads and writes
PpuMemAddrs == {16, 8192, 9216, 10240}
PpuMemVals == {0, 129}

\* ppu.write_mask(val)
PpuWriteMask(val) ==
  /\ CanCall
  /\ Finish("write_mask", val, Ret(write_mask(M, val), val))
  /\ ops_left' = ops_left - 1
  /\ UNCHANGED frame

\* ppu.write(addr, val)
PpuWrite(addr, val) ==
  /\ CanCall
  /\ Finish("ppu_write", addr, Ret(PPUWriteB(M, addr, val), val))
  /\ ops_left' = ops_left - 1
  /\ UNCHANGED frame

\* ppu.read(addr)
PpuRead(addr) ==
  /\ CanCall
  /\ Finish("ppu_read", addr, PPUReadB(M, addr))
  /\ ops_left' = ops_left - 1
  /\ UNCHANGED frame

\* ppu.tick()
PpuTick ==
  /\ CanCall
  /\ Finish("tick", 0, Ret(tick(M), 0))
  /\ ops_left' = ops_left - 1
  /\ UNCHANGED frame

NextPpu ==
  \/ \E v \in {0, 16} : PpuWriteMask(v)
  \/ \E a \in PpuMemAddrs, v \in PpuMemVals : PpuWrite(a, v)
  \/ \E a \in PpuMemAddrs : PpuRead(a)
  \/ PpuTick

SpecPpu == InitPpu /\ [][NextPpu]_vars

\* sprite_height
Height == IF Bit(ppu.ctrl, 5) = 1 THEN 16 ELSE 8

\* the sprites whose Y range contains the current scanline
OnLine ==
  { i \in 0 .. 63 : (ppu.scanline - (Get(ppu.oam, i * 4) + 1)) \in 0 .. Height - 1 }

\* the sprites whose eight columns contain the current pixel
OnColumn ==
  { i \in 0 .. 63 : (ppu.cycle - 1) - Get(ppu.oam, i * 4 + 3) \in 0 .. 7 }

\* C31: sprite evaluation at a visible pixel takes only sprites whose Y range
\* contains the current scanline: STATUS bit 5 is set by the tick exactly when
\* a ninth sprite's Y range contains the scanline, and the sprite layer has a
\* colour only from a sprite whose Y range contains the scanline.
C31_SpriteEvaluation ==
  [][(/\ PpuTick
      /\ ppu.scanline < 240 /\ ppu.cycle \in 1 .. 255
      /\ Bit(ppu.mask, 4) = 1
      /\ last'.ok) =>
       /\ Bit(ppu'.status, 5) = 1 <=>
            (Bit(ppu.status, 5) = 1 \/ Cardinality(OnLine) >= 9)
       /\ render_sprites(M).val[1] # 0 => OnLine \cap OnColumn # {}]_vars

\* the pattern-table addresses and bytes tried
ChrAddrs == {0, 16, 4096, 8191}
ChrBytes == {1, 129, 255}

\* C32: with 0 CHR banks a PPU write of b to an address in 0x0000-0x1FFF
\* followed by a PPU read of the same address returns b; with CHR ROM present
\* such a write leaves the CHR bytes unchanged and raises no error.
C32_ChrRam ==
  (rev = RevB /\ nes.rom # None) =>
    \A a \in ChrAddrs, b \in ChrBytes :
      IF nes.rom.chr.len = 0
      THEN PPUReadB(PPUWriteB(M, a, b), a).val = b
      ELSE /\ Ok(PPUWriteB(M, a, b))
           /\ PPUWriteB(M, a, b).nes.rom.chr = nes.rom.chr

\* the first nametable
Nametable0 == 8192 .. 9215

\* C33: nametable mirroring follows the cartridge flag load_rom stored: for
\* every a in 0x2000-0x23FF, with vertical mirroring a and a+0x800 are one
\* VRAM cell and a and a+0x400 are two; with horizontal mirroring a and
\* a+0x400 are one cell and a and a+0x800 are two.
C33_NametableMirroring ==
  (rev = RevB /\ nes.rom # None) =>
    \A a \in Nametable0 :
      IF nes.mirroring = 1
      THEN /\ mirror_vram(M, a) = mirror_vram(M, a + 2048)
           /\ mirror_vram(M, a) # mirror_vram(M, a + 1024)
      ELSE /\ mirror_vram(M, a) = mirror_vram(M, a + 1024)
           /\ mirror_vram(M, a) # mirror_vram(M, a + 2048)

-----------------------------------------------------------------------------
(* Interrupts: the CPU with an NMI handler and an IRQ handler in ROM.        *)

\* the number of calls in one behaviour
MaxIrqOps == 4

\* two banks: code at 0x8000 ; the NMI handler RTI at 0x9000 ; the IRQ
\* handler PHA ; PLA ; RTI at 0x9100 ; the vectors NMI 0x9000, reset 0x8000,
\* IRQ 0x9100
IrqCart(code) ==
  INesFile(26, 2, 0, 1, 0, 16 + 32768,
           Join(Code(0, code),
                Join(Code(4096, <<64>>),
                     Join(Code(4352, <<72, 104, 64>>),
                          Code(32762, <<0, 144, 0, 128, 0, 145>>)))))

\* the first instruction at 0x8000: NOP, CLI, SEI, RTS ; after it CLI ; NOP
FirstOps == {234, 88, 120, 96}

\* the machine after load_rom, the stack area filled, the registers set and
\* the interrupt request line as given
IrqCase(r, op, status, sp, irq_pending) ==
  [load_rom(Machine(r), IrqCart(<<op, 88, 234>>)).m
     EXCEPT !.nes.wram = Background,
            !.cpu.sp = sp, !.cpu.status = status,
            !.cpu.irq_pending = irq_pending]

InitIrq ==
  /\ \E r \in {RevA, RevB}, op \in FirstOps, status \in {36, 32, 227},
        sp \in {253, 1}, irq_pending \in BOOLEAN :
       Started(IrqCase(r, op, status, sp, irq_pending))
  /\ frame = Idle
  /\ last = Called("none", 0, 0, TRUE, "none", "none")
  /\ ops_left = MaxIrqOps

\* the PPU at the start of vertical blank: self.nes.cpu.nmi_pending = True
RaiseNmi ==
  /\ CanCall
  /\ ~cpu.nmi_pending
  /\ cpu' = [cpu EXCEPT !.nmi_pending = TRUE]
  /\ last' = Called("nmi_pending", 0, 0, TRUE, "none", "none")
  /\ ops_left' = ops_left - 1
  /\ UNCHANGED <<rev, ppu, nes, sys_bus, frame>>

NextIrq ==
  \/ CpuStep
  \/ RaiseNmi

SpecIrq == InitIrq /\ [][NextIrq]_vars

\* the I flag
Masked == Bit(cpu.status, 2) = 1

\* the 16-bit word the vector holds
Vector(addr) == Read(M, addr).val + 256 * Read(M, addr + 1).val

RECURSIVE StepsFrom(_, _)
StepsFrom(m, n) ==
  IF n = 0 \/ ~Ok(m) THEN m ELSE StepsFrom(Step(m).m, n - 1)

\* the next step is an interrupt entry
EntryDue == cpu.nmi_pending \/ (cpu.irq_pending /\ ~Masked)

\* the instructions of the handler the entry leads to, its RTI included
HandlerLength(kind) == IF kind = "nmi" THEN 1 ELSE 3

\* C36: an NMI or IRQ entry step followed, after a handler that leaves the
\* stack balanced, by RTI restores PC, SP and the whole status byte to their
\* values immediately before the entry step.
C36_InterruptRoundTrip ==
  EntryDue =>
    LET entry == Step(M)
        back  == StepsFrom(entry.m, HandlerLength(entry.val.kind))
    IN  /\ Ok(back)
        /\ back.cpu.pc = cpu.pc
        /\ back.cpu.sp = cpu.sp
        /\ back.cpu.status = cpu.status

-----------------------------------------------------------------------------
(* What reset leaves of the state outside the cartridge.                     *)

\* the PPU registers and the (scanline, cycle) timer of a PPU record
PpuRegisters(r, p) ==
  IF r = RevA
  THEN <<p.ctrl, p.mask, p.status, p.oam_addr, p.scroll_x, p.scroll_y,
         p.vram_addr, p.temp_addr, p.fine_x, p.write_toggle, p.read_buffer,
         p.scanline, p.cycle>>
  ELSE <<p.ctrl, p.mask, p.status, p.oam_addr, p.v, p.t, p.x, p.w,
         p.scanline, p.cycle>>

\* the controller strobe and shift state ; 0.1.1B has no controller
ControllerState(r, n) ==
  IF r = RevA THEN <<n.controller_strobe, n.controller_shift>> ELSE << >>

\* C35: after reset the pending-interrupt flags, the extra-cycle counter, the
\* PPU registers and timer and the controller strobe/shift state equal their
\* construction-time values, and the first step after reset fetches the
\* instruction at the reset vector.
C35_ResetReinitializes ==
  (last.op = "reset" /\ last.ok) =>
    /\ cpu.nmi_pending = CPU_Init.nmi_pending
    /\ cpu.irq_pending = CPU_Init.irq_pending
    /\ cpu.extra_cycles = CPU_Init.extra_cycles
    /\ PpuRegisters(rev, ppu) = PpuRegisters(rev, IF rev = RevA THEN PPU_A ELSE PPU_B)
    /\ ControllerState(rev, nes) = ControllerState(rev, IF rev = RevA THEN NES_A ELSE NES_B)
    /\ Step(M).val.kind \notin {"nmi", "irq", "frozen"}
    /\ Step(M).val.opcode = Read(M, Read16(M, 65532).val).val

-----------------------------------------------------------------------------
(* The PPU registers of revision 0.11A behind the bus.                       *)

\* the number of register accesses in one behaviour
MaxRegOps == 4

\* PPUCTRL, PPUSCROLL, PPUADDR, PPUDATA and a mirror of PPUADDR ; PPUSTATUS
\* and PPUDATA
RegWriteAddrs == {8192, 8197, 8198, 8199, 16382}
RegReadAddrs == {8194, 8199}
RegVals == {4, 63, 255}

InitRegs ==
  /\ Objects(RevA)
  /\ frame = Idle
  /\ last = Called("none", 0, 0, TRUE, "none", "none")
  /\ ops_left = MaxRegOps

NextRegs ==
  \/ \E a \in RegWriteAddrs, v \in RegVals : PortWrite(a, v)
  \/ \E a \in RegReadAddrs : PortRead(a)

SpecRegs == InitRegs /\ [][NextRegs]_vars

\* reg = (addr - 0x2000) & 7
RegOf(addr) == (addr - 8192) % 8

\* C37: 0x2005 and 0x2006 share one write toggle: every 0x2005/0x2006 write
\* flips w, every 0x2002 read clears it and no other access changes it, so w
\* is in {0,1} and is the parity of the 0x2005/0x2006 writes since the last
\* 0x2002 read or construction; t and v stay below 0x8000; v changes only on
\* a 0x2006 write made with w=1 (v <- t) or on a 0x2007 access.
C37_WriteToggle ==
  [][(PortWrite(last'.arg, last'.val) \/ PortRead(last'.arg)) =>
       LET reg == RegOf(last'.arg)
           wr  == last'.op = "write"
       IN  /\ ppu.write_toggle \in {0, 1}
           /\ ppu'.write_toggle =
                IF wr /\ reg \in {5, 6} THEN 1 - ppu.write_toggle
                ELSE IF ~wr /\ reg = 2 THEN 0
                ELSE ppu.write_toggle
           /\ ppu'.temp_addr < 32768
           /\ ppu'.vram_addr < 32768
           /\ ppu'.vram_addr # ppu.vram_addr =>
                \/ wr /\ reg = 6 /\ ppu.write_toggle = 1
                   /\ ppu'.vram_addr = ppu'.temp_addr
                \/ reg = 7]_vars

\* the second write of 0x2006 has put 0x3FFF in v, the toggle back at 0, at
\* the end of four accesses
C37_Witness ==
  /\ last.op = "write" /\ RegOf(last.arg) = 6
  /\ ppu.write_toggle = 0
  /\ ppu.vram_addr = 16383
  /\ ops_left = 0

-----------------------------------------------------------------------------
(* The VBlank flag of revision 0.11A.                                        *)

\* the timer is inside the vertical-blank interval
InVBlank(p) ==
  \/ p.scanline = 241 /\ p.cycle >= 1
  \/ p.scanline \in 242 .. 260
  \/ p.scanline = 261 /\ p.cycle = 0

\* the PPU clocks of the longest pass of run_frame: a step of 8 cycles
PassClocks == 3 * LargestStep

\* STATUS bit 7 implies the interval, now and after each of the next n clocks
RECURSIVE FlagInVBlank(_, _)
FlagInVBlank(m, n) ==
  /\ Bit(m.ppu.status, 7) = 1 => InVBlank(m.ppu)
  /\ n = 0 \/ FlagInVBlank(TickA(m), n - 1)

\* C38: in revision 0.11A, after every PPU tick, STATUS bit 7 set implies
\* (scanline = 241 and cycle >= 1) or 242 <= scanline <= 260 or (scanline =
\* 261 and cycle = 0); the flag is never set on the visible scanlines 0-239.
C38_VBlankFlagInterval ==
  rev = RevA => FlagInVBlank(M, PassClocks)

\* the flag is set inside vertical blank
C38_Witness ==
  /\ rev = RevA
  /\ Bit(ppu.status, 7) = 1
  /\ ppu.scanline = 250

-----------------------------------------------------------------------------
(* One cartridge loaded after another.                                       *)

\* the number of calls in one behaviour
MaxLoadOps == 4

\* an image with CHR ROM, a two-bank image without CHR, a one-bank image
\* without CHR
LoadImages == <<CartChrRom(0), CartTwoBanks, CartUndefined>>

InitLoad ==
  /\ \E r \in {RevA, RevB} : Objects(r)
  /\ frame = Idle
  /\ last = Called("none", 0, 0, TRUE, "none", "none")
  /\ ops_left = MaxLoadOps

\* nes.load_rom(...) with the i-th of these images
LoadImage(i) ==
  /\ CanCall
  /\ Loaded(i, load_rom(M, LoadImages[i]))
  /\ ops_left' = ops_left - 1
  /\ UNCHANGED frame

NextLoad ==
  \/ \E i \in 1 .. Len(LoadImages) : LoadImage(i)
  \/ CpuStep
  \/ \E a \in ReadAddrs : NesRead(a)

SpecLoad == InitLoad /\ [][NextLoad]_vars

\* the CHR an image declares, as the bytes that follow its PRG
ChrOf(image) ==
  Slice(image, 16 + Get(image.at, 4) * 16384,
        16 + Get(image.at, 4) * 16384 + Get(image.at, 5) * 8192)

\* the non-zero bytes of the PPU's pattern memory
PatternMemory == IF rev = RevA THEN ppu.chr_rom.at ELSE nes.rom.chr.at

\* addresses spread over the cartridge window
PrgWindow == {32768, 32769, 32770, 49152, 49153, 65532, 65533}

\* C39: after load_rom succeeds every PRG byte readable at 0x8000-0xFFFF and
\* every CHR byte comes only from the newly loaded image: an image with 0 CHR
\* banks loaded after an image with CHR ROM leaves none of the earlier
\* image's CHR bytes in the PPU's pattern memory.
C39_CartridgeReplaced ==
  (last.op = "load_rom" /\ last.ok) =>
    /\ \A a \in PrgWindow :
         BusRead(M, a).val =
           Get(PrgOf(LoadImages[last.arg]).at,
               (a - 32768) % PrgOf(LoadImages[last.arg]).len)
    /\ PatternMemory = ChrOf(LoadImages[last.arg]).at

-----------------------------------------------------------------------------
(* The console thread of revision 0.11A beside the emulation loop.  The two  *)
(* threads share the CPU without a lock: the loop's CPU.step reads           *)
(* console_active once, at its start, and the console thread can run         *)
(* between that read and the rest of the step.                               *)

\* the number of steps of the two threads in one behaviour
MaxConsoleOps == 6

ConsoleCartridges == <<CartNmi, CartTwoBanks>>

InitConsole ==
  /\ \E i \in 1 .. Len(ConsoleCartridges) :
       Started(load_rom(Machine(RevA), ConsoleCartridges[i]).m)
  /\ frame = Idle
  /\ last = Called("none", 0, 0, TRUE, "none", "none")
  /\ ops_left = MaxConsoleOps

\* the loop thread, inside run_frame, calls cpu.step(): the test of
\* console_active and paused.  When it fails the step returns 2 and
\* ppu.step(2) follows; otherwise the step is under way.
LoopStepBegin ==
  /\ frame.pc = "loop"
  /\ ops_left > 0
  /\ IF sys_bus.console_active \/ sys_bus.paused
     THEN /\ Stepped("pass", PassA(M))
          /\ frame' = frame
     ELSE /\ Commit(M)
          /\ last' = Called("step_begin", 0, 0, TRUE, "none", "none")
          /\ frame' = [frame EXCEPT !.pc = "step"]
  /\ ops_left' = ops_left - 1

\* the loop thread: the rest of the step under way, then ppu.step(c)
LoopStepBody ==
  /\ frame.pc = "step"
  /\ ops_left > 0
  /\ Stepped("pass", TickedA(StepBodyA(M)))
  /\ frame' = [frame EXCEPT !.pc = "loop"]
  /\ ops_left' = ops_left - 1

\* the console thread starts: sys_bus.console_active = True
ConsoleStart ==
  /\ ~sys_bus.console_active
  /\ ops_left > 0
  /\ sys_bus' = [sys_bus EXCEPT !.console_active = TRUE]
  /\ last' = Called("console", 0, 0, TRUE, "none", "none")
  /\ ops_left' = ops_left - 1
  /\ UNCHANGED <<rev, cpu, ppu, nes, frame>>

\* the console thread: the command reset, nes.cpu.reset()
ConsoleReset ==
  /\ sys_bus.console_active
  /\ ops_left > 0
  /\ Finish("console_reset", 0, Ret(reset(M), 0))
  /\ ops_left' = ops_left - 1
  /\ UNCHANGED frame

\* the console thread: the command exit, sys_bus.console_active = False
ConsoleQuit ==
  /\ sys_bus.console_active
  /\ ops_left > 0
  /\ sys_bus' = [sys_bus EXCEPT !.console_active = FALSE]
  /\ last' = Called("exit", 0, 0, TRUE, "none", "none")
  /\ ops_left' = ops_left - 1
  /\ UNCHANGED <<rev, cpu, ppu, nes, frame>>

NextConsole ==
  \/ RunFrameBegin
  \/ LoopStepBegin
  \/ LoopStepBody
  \/ ConsoleStart
  \/ ConsoleReset
  \/ ConsoleQuit

SpecConsole == InitConsole /\ [][NextConsole]_vars

\* C40: in revision 0.11A, once console_active is set no CPU.step the
\* emulation loop begins modifies CPU registers or memory until the console
\* exits, so the console's reset never meets a partially executed
\* instruction, and it leaves PC at the reset vector with SP = 0xFD for as
\* long as the console is active.
C40_ConsoleExcludesLoop ==
  [][/\ (LoopStepBegin /\ sys_bus.console_active) =>
          (cpu' = cpu /\ nes'.wram = nes.wram)
     /\ ConsoleReset =>
          /\ frame.pc # "step"
          /\ cpu'.pc = Read16(M, 65532).val
          /\ cpu'.sp = 253
     /\ (last.op = "console_reset" /\ sys_bus.console_active /\ LoopStepBody) =>
          (cpu'.pc = cpu.pc /\ cpu'.sp = cpu.sp)]_vars
=============================================================================
